---- MODULE Spec2Model ----
(***************************************************************************)
(* TAIPPA: the influencer directory (create / update / delete / refresh /  *)
(* search) and the brand matching endpoint, modelled over the store rows   *)
(* the handlers read and write.                                            *)
(*                                                                         *)
(* Conventions                                                             *)
(*   - an Optional[...] value is a set with at most one element: None is   *)
(*     {} and a present value v is {v};                                    *)
(*   - a text is a sequence of one-character strings;                      *)
(*   - engagement rates are integers in hundredths of a percent point      *)
(*     (3.5 is 350), scores are rationals <<numerator, denominator>> and a *)
(*     rounded score is an integer number of 1/10000.                      *)
(***************************************************************************)
EXTENDS Integers, Sequences, FiniteSets, TLC

VARIABLES influencers, brands, writes, request, response, seen, plans, subscriptions,
          campaigns, inflight

vars == <<influencers, brands, writes, request, response, seen, plans, subscriptions,
          campaigns, inflight>>

\* the tables of routers/subscriptions.py
billing == <<plans, subscriptions>>

----------------------------------------------------------------------------
(* Optional values *)

None == {}

Some(v) == {v}

Val(o) == CHOOSE v \in o : TRUE

\* Python's `x or d` for an Optional number or text x
OrElse(o, d) == IF o = None THEN d ELSE Val(o)

Range(s) == {s[i] : i \in 1..Len(s)}

----------------------------------------------------------------------------
(* Characters and texts *)

UpperChars == <<"A","B","C","D","E","F","G","H","I","J","K","L","M",
                "N","O","P","Q","R","S","T","U","V","W","X","Y","Z">>

LowerChars == <<"a","b","c","d","e","f","g","h","i","j","k","l","m",
                "n","o","p","q","r","s","t","u","v","w","x","y","z">>

DigitChars == {"0","1","2","3","4","5","6","7","8","9"}

\* str.lower() on one character
LowerChar(c) ==
    IF \E i \in 1..Len(UpperChars) : UpperChars[i] = c
    THEN LowerChars[CHOOSE i \in 1..Len(UpperChars) : UpperChars[i] = c]
    ELSE c

\* str.lower()
Lower(text) == [i \in 1..Len(text) |-> LowerChar(text[i])]

\* the class \w of Python's re on str: letters, digits and the underscore
WordChars == Range(UpperChars) \cup Range(LowerChars) \cup DigitChars \cup {"_"}

IsWordChar(c) == c \in WordChars

\* " ".join(parts)
RECURSIVE JoinSpace(_)
JoinSpace(parts) ==
    IF Len(parts) = 0 THEN <<>>
    ELSE IF Len(parts) = 1 THEN parts[1]
    ELSE parts[1] \o <<" ">> \o JoinSpace(Tail(parts))

\* re.split(r"\W+", text): the maximal runs of word characters, with an empty
\* string where the text starts or ends with a separator
RECURSIVE SplitFrom(_, _, _, _)
SplitFrom(text, i, cur, inSep) ==
    IF i > Len(text) THEN <<cur>>
    ELSE IF IsWordChar(text[i]) THEN SplitFrom(text, i + 1, Append(cur, text[i]), FALSE)
    ELSE IF inSep THEN SplitFrom(text, i + 1, cur, TRUE)
    ELSE <<cur>> \o SplitFrom(text, i + 1, <<>>, TRUE)

ReSplit(text) == SplitFrom(text, 1, <<>>, FALSE)

stop_words == { <<"t","h","e">>, <<"a","n","d">>, <<"f","o","r">>, <<"w","i","t","h">>,
                <<"a">>, <<"a","n">>, <<"o","f">>, <<"i","n">>, <<"t","o">>, <<"o","n">> }

TokenMinLen == 2

\* tokenize(text): the list of kept tokens, in order, duplicates included
tokenize(text) ==
    IF Len(text) = 0 THEN <<>>
    ELSE SelectSeq(ReSplit(Lower(text)),
                   LAMBDA t : Len(t) > 0 /\ t \notin stop_words /\ Len(t) > TokenMinLen)

----------------------------------------------------------------------------
(* Python float arithmetic, modelled exactly: a number is <<n, d>>, d > 0 *)


RECURSIVE GCD(_, _)
GCD(a, b) == IF b = 0 THEN a ELSE GCD(b, a % b)

Abs(x) == IF x < 0 THEN -x ELSE x

\* n / d for d # 0, in lowest terms with a positive denominator
Frac(n, d) ==
    LET g == GCD(Abs(n), Abs(d))
        s == IF d < 0 THEN -1 ELSE 1
    IN  <<(s * n) \div g, (s * d) \div g>>

FAdd(x, y) == Frac(x[1] * y[2] + y[1] * x[2], x[2] * y[2])

\* (a / b) * x
FScale(a, b, x) == Frac(a * x[1], b * x[2])

FLeq(x, y) == x[1] * y[2] <= y[1] * x[2]

\* round(x * scale) to the nearest integer, ties to even: round(x, 4) is
\* RoundTo(x, 10000) / 10000.  On the follower counts and rates of this model
\* no score lies half-way between two multiples of 1/10000, where a double
\* could round the other way.
RoundTo(x, scale) ==
    LET n == x[1] * scale
        d == x[2]
        q == n \div d
        r == n - q * d
    IN  IF 2 * r > d THEN q + 1
        ELSE IF 2 * r < d THEN q
        ELSE IF q % 2 = 0 THEN q ELSE q + 1

ScoreScale == 10000

RECURSIVE MaxOf(_)
MaxOf(s) ==
    IF Len(s) = 1 THEN s[1]
    ELSE LET m == MaxOf(Tail(s)) IN IF s[1] >= m THEN s[1] ELSE m

\* sorted(items, key=score, reverse=True): Python's sort is stable, and with
\* reverse=True it still keeps equal keys in their original order
\* InsertDesc with the new element put before its equals
RECURSIVE InsertDescTiesFirst(_, _)
InsertDescTiesFirst(sorted, x) ==
    IF Len(sorted) = 0 THEN <<x>>
    ELSE IF sorted[1].score > x.score
         THEN <<sorted[1]>> \o InsertDescTiesFirst(Tail(sorted), x)
    ELSE <<x>> \o sorted

RECURSIVE InsertDesc(_, _)
InsertDesc(sorted, x) ==
    IF Len(sorted) = 0 THEN <<x>>
    ELSE IF sorted[1].score >= x.score THEN <<sorted[1]>> \o InsertDesc(Tail(sorted), x)
    ELSE <<x>> \o sorted

RECURSIVE SortByScoreDesc(_)
SortByScoreDesc(s) ==
    IF Len(s) = 0 THEN <<>>
    ELSE InsertDesc(SortByScoreDesc(SubSeq(s, 1, Len(s) - 1)), s[Len(s)])

\* Prefix without the truncation
PrefixAll(s, n) == s

\* s[:n] for n >= 0
Prefix(s, n) == SubSeq(s, 1, IF n < Len(s) THEN n ELSE Len(s))

----------------------------------------------------------------------------
(* match.py: the scoring of one request *)

\* brand_tokens (match.py line 69-70)
BrandTokens(brand) ==
    Range(tokenize(JoinSpace(<<brand.name, OrElse(brand.description, <<>>),
                               OrElse(brand.industry, <<>>),
                               OrElse(brand.target_audience, <<>>)>>)))

\* inf_tokens (line 84-85)
InfTokens(inf) == Range(tokenize(JoinSpace(<<inf.name, inf.handle, inf.platform>>)))

\* SemanticScore dividing by |A| + |B| instead of |A \cup B|
SemanticScoreBySum(A, B) ==
    IF A \cup B = {} THEN <<0, 1>>
    ELSE Frac(Cardinality(A \cap B), Cardinality(A) + Cardinality(B))

\* semantic_score (lines 87-89): Jaccard similarity, 0.0 on an empty union
SemanticScore(A, B) ==
    IF A \cup B = {} THEN <<0, 1>>
    ELSE Frac(Cardinality(A \cap B), Cardinality(A \cup B))

\* MaxFollowers taken from the recommendations of the kept response, when
\* there is one, instead of the pool
MaxFollowersKept(pool) ==
    LET kept == seen.response.body
        rows == IF Len(kept) > 0 THEN kept ELSE pool
        m == MaxOf([i \in 1..Len(rows) |-> OrElse(rows[i].followers, 0)])
    IN  IF m = 0 THEN 1 ELSE m

\* MaxFollowers taken over the influencers of every tenant
MaxFollowersOfAll(pool) ==
    LET m == MaxOf([i \in 1..Len(influencers) |-> OrElse(influencers[i].followers, 0)])
    IN  IF m = 0 THEN 1 ELSE m

\* max_followers (line 79) of a non-empty pool
MaxFollowers(pool) ==
    LET m == MaxOf([i \in 1..Len(pool) |-> OrElse(pool[i].followers, 0)])
    IN  IF m = 0 THEN 1 ELSE m

FollowersNorm(inf, max_followers) == Frac(OrElse(inf.followers, 0), max_followers)

EngagementNorm(inf) == Frac(OrElse(inf.engagement_rate, 0), 100 * 100)

EngagementScore(inf, max_followers) ==
    FAdd(FScale(1, 2, FollowersNorm(inf, max_followers)), FScale(1, 2, EngagementNorm(inf)))

\* OverallScore with the weights 0.5 and 0.5
OverallScoreEvenWeights(brand_tokens, inf, max_followers) ==
    FAdd(FScale(5, 10, SemanticScore(brand_tokens, InfTokens(inf))),
         FScale(5, 10, EngagementScore(inf, max_followers)))

OverallScore(brand_tokens, inf, max_followers) ==
    FAdd(FScale(6, 10, SemanticScore(brand_tokens, InfTokens(inf))),
         FScale(4, 10, EngagementScore(inf, max_followers)))

\* one element of `recommendations` (lines 101-110); the explanation text,
\* which no operation reads, is left out
Recommendation(brand_tokens, inf, max_followers) ==
    [ influencer_id   |-> inf.id,
      name            |-> inf.name,
      handle          |-> inf.handle,
      platform        |-> inf.platform,
      followers       |-> inf.followers,
      engagement_rate |-> inf.engagement_rate,
      score           |-> RoundTo(OverallScore(brand_tokens, inf, max_followers), ScoreScale) ]

\* Rank cutting the pool to top_n before it sorts
RankCutFirst(brand, pool, top_n) ==
    LET brand_tokens == BrandTokens(brand)
        max_followers == MaxFollowers(pool)
        recommendations == [i \in 1..Len(pool) |->
                               Recommendation(brand_tokens, pool[i], max_followers)]
    IN  SortByScoreDesc(Prefix(recommendations, top_n))

\* lines 78-113: the ranked recommendations for a non-empty pool
Rank(brand, pool, top_n) ==
    LET brand_tokens == BrandTokens(brand)
        max_followers == MaxFollowers(pool)
        recommendations == [i \in 1..Len(pool) |->
                               Recommendation(brand_tokens, pool[i], max_followers)]
    IN  Prefix(SortByScoreDesc(recommendations), top_n)

----------------------------------------------------------------------------
(* SQL helpers used by influencers.py *)

\* s LIKE p on lower-cased texts, from positions i and j: % is any run of
\* characters and _ any single character
RECURSIVE LikeFrom(_, _, _, _)
LikeFrom(s, i, p, j) ==
    IF j > Len(p) THEN i > Len(s)
    ELSE IF p[j] = "%" THEN \E k \in i..(Len(s) + 1) : LikeFrom(s, k, p, j + 1)
    ELSE /\ i <= Len(s)
         /\ (p[j] = "_" \/ p[j] = s[i])
         /\ LikeFrom(s, i + 1, p, j + 1)

\* column.ilike(pattern): a NULL column never matches
ILike(column, pattern) ==
    /\ column # None
    /\ LikeFrom(Lower(Val(column)), 1, Lower(pattern), 1)

\* f"%{text.lower()}%"
Contains(text) == <<"%">> \o Lower(text) \o <<"%">>

----------------------------------------------------------------------------
(* The store and the callers *)

Tenants == {"t1", "t2"}

\* models.User rows: id, tenant_id, role
Users == { [id |-> "admin1",  tenant_id |-> "t1", role |-> "admin"],
           [id |-> "client1", tenant_id |-> "t1", role |-> "client"],
           [id |-> "admin2",  tenant_id |-> "t2", role |-> "admin"] }

\* the number of successful writes to the store a behaviour makes
MaxWrites == 3

InfluencerIds == 1..(MaxWrites + 1)

BrandIds == 1..(MaxWrites + 1)

\* uuid4(): an id no row of the table has (the least one, ids being opaque)
FreshId(rows, ids) ==
    LET free == {id \in ids : \A i \in 1..Len(rows) : rows[i].id # id}
    IN  CHOOSE id \in free : \A other \in free : id <= other

\* the ids a request names: those of the rows and one that no row has
RequestIds(rows, ids) == {rows[i].id : i \in 1..Len(rows)} \cup {FreshId(rows, ids)}

\* session.get(Model, id): the row with that primary key, if any
Get(rows, id) ==
    IF \E i \in 1..Len(rows) : rows[i].id = id
    THEN Some(rows[CHOOSE i \in 1..Len(rows) : rows[i].id = id])
    ELSE None

\* InfluencersOfTenant returning the rows in the opposite order once `seen`
\* holds an exchange
InfluencersOfTenantTurning(tenant_id) ==
    LET rows == SelectSeq(influencers, LAMBDA inf : inf.tenant_id = tenant_id)
    IN  IF seen.request.op = "none" THEN rows
        ELSE [i \in 1..Len(rows) |-> rows[Len(rows) + 1 - i]]

\* InfluencersOfTenant without its WHERE clause
InfluencersOfAnyTenant(tenant_id) == influencers

\* select(Influencer).where(Influencer.tenant_id == tenant_id), in scan order
InfluencersOfTenant(tenant_id) ==
    SelectSeq(influencers, LAMBDA inf : inf.tenant_id = tenant_id)

\* require_role(*allowed_roles)
RequireRole(user, allowed_roles) == user.role \in allowed_roles

HTTP_200 == 200

HTTP_201 == 201

HTTP_204 == 204

HTTP_400 == 400

HTTP_403 == 403

HTTP_404 == 404

HTTP_422 == 422

HTTP_500 == 500

\* a response without a body; `fetched` and `scored` are set by match
Status(code) == [status |-> code, body |-> <<>>, fetched |-> FALSE, scored |-> 0]

NoRequest == [op |-> "none"]

NoResponse == Status(0)

\* `seen` keeps one earlier exchange of a caller: the request it sent and the
\* response it got
NoSeen == [request |-> NoRequest, response |-> NoResponse]

\* requests are handled one at a time: a handler runs when no response is
\* waiting to be taken
Idle == request = NoRequest

----------------------------------------------------------------------------
(* Request bodies the endpoints are driven with *)

\* schemas.BrandCreate bodies
BrandPayloads ==
    { [ name |-> <<"E","c","o"," ","W","e","a","r">>,
        description |-> None,
        industry |-> Some(<<"t","i","k","t","o","k">>),
        target_audience |-> None ],
      [ name |-> <<"G","o">>,
        description |-> None,
        industry |-> None,
        target_audience |-> Some(<<"t","o"," ","d","o">>) ] }

\* schemas.InfluencerCreate bodies: handle, name and platform are required,
\* every other field is Optional and carries no range validation
InfluencerPayloads ==
    { [ handle |-> <<"e","c","o",".","w","e","a","r">>,
        name |-> <<"E","c","o"," ","W","e","a","r">>,
        platform |-> <<"T","i","k","T","o","k">>,
        followers |-> Some(500), engagement_rate |-> Some(350),
        topics |-> Some(<<"e","c","o",",","f","i","t">>),
        bio |-> None,
        country |-> Some(<<"U","S">>) ],
      [ handle |-> <<"a","l">>,
        name |-> <<"A","l">>,
        platform |-> <<"y","t">>,
        followers |-> None, engagement_rate |-> None,
        topics |-> None,
        bio |-> Some(<<"e","c","o">>),
        country |-> None ],
      [ handle |-> <<"f","i","t","_","1">>,
        name |-> <<"F","i","t">>,
        platform |-> <<"t","i","k","t","o","k">>,
        followers |-> Some(0), engagement_rate |-> Some(0),
        topics |-> None,
        bio |-> None,
        country |-> Some(<<"u","s">>) ] }

\* schemas.InfluencerUpdate bodies: the fields that were set (exclude_unset)
InfluencerUpdates ==
    { [ followers |-> Some(-10), engagement_rate |-> Some(60000) ] }

\* random.randint / random.uniform draws of one refreshed influencer:
\* randint(1000, 10000), randint(-100, 500), round(uniform(0.5, 10.0), 2)
RefreshDraws ==
    { [ base |-> 1000, delta |-> -100, rate |-> 50 ],
      [ base |-> 1000, delta |-> 500,  rate |-> 1000 ] }

----------------------------------------------------------------------------
(* brands.py *)

\* create_brand (lines 20-40)
create_brand(user, brand_in) ==
    /\ Idle
    /\ writes < MaxWrites
    /\ IF ~RequireRole(user, {"admin", "client"})
       THEN /\ response' = Status(HTTP_403)
            /\ UNCHANGED brands
       ELSE /\ brands' = Append(brands,
                           [ id |-> FreshId(brands, BrandIds),
                             owner_id |-> user.id,
                             name |-> brand_in.name,
                             description |-> brand_in.description,
                             industry |-> brand_in.industry,
                             target_audience |-> brand_in.target_audience,
                             tenant_id |-> user.tenant_id ])
            /\ response' = Status(HTTP_201)
    /\ writes' = IF brands' = brands THEN writes ELSE writes + 1
    /\ request' = [op |-> "create_brand", user |-> user]
    /\ UNCHANGED <<influencers, seen, billing, campaigns, inflight>>

----------------------------------------------------------------------------
(* influencers.py: the endpoints that write *)

\* the UNIQUE index on influencers.handle (models.py line 221)
HandleTaken(rows, handle) == \E i \in 1..Len(rows) : rows[i].handle = handle

\* create_influencer (lines 21-37)
create_influencer(user, influencer_in) ==
    /\ Idle
    /\ writes < MaxWrites
    /\ IF ~RequireRole(user, {"admin"})
       THEN /\ response' = Status(HTTP_403)
            /\ UNCHANGED influencers
       ELSE IF HandleTaken(influencers, influencer_in.handle)
       THEN /\ response' = Status(HTTP_500)
            /\ UNCHANGED influencers
       ELSE /\ influencers' = Append(influencers,
                                [ id |-> FreshId(influencers, InfluencerIds),
                                  tenant_id |-> user.tenant_id,
                                  handle |-> influencer_in.handle,
                                  name |-> influencer_in.name,
                                  platform |-> influencer_in.platform,
                                  followers |-> influencer_in.followers,
                                  engagement_rate |-> influencer_in.engagement_rate,
                                  topics |-> influencer_in.topics,
                                  bio |-> influencer_in.bio,
                                  country |-> influencer_in.country ])
            /\ response' = Status(HTTP_201)
    /\ writes' = IF influencers' = influencers THEN writes ELSE writes + 1
    /\ request' = [op |-> "create_influencer", user |-> user]
    /\ UNCHANGED <<brands, seen, billing, campaigns, inflight>>

\* for attr, value in influencer_in.model_dump(exclude_unset=True).items():
\*     setattr(influencer, attr, value)
SetAttrs(row, body) ==
    [attr \in DOMAIN row |-> IF attr \in DOMAIN body THEN body[attr] ELSE row[attr]]

Index(rows, id) == CHOOSE i \in 1..Len(rows) : rows[i].id = id

\* update_influencer (lines 70-85)
update_influencer(user, influencer_id, influencer_in) ==
    /\ Idle
    /\ writes < MaxWrites
    /\ IF ~RequireRole(user, {"admin"})
       THEN /\ response' = Status(HTTP_403)
            /\ UNCHANGED influencers
       ELSE LET influencer == Get(influencers, influencer_id) IN
            IF influencer = None \/ Val(influencer).tenant_id # user.tenant_id
            THEN /\ response' = Status(HTTP_404)
                 /\ UNCHANGED influencers
            ELSE LET updated == SetAttrs(Val(influencer), influencer_in)
                     others == SelectSeq(influencers, LAMBDA r : r.id # influencer_id)
                 IN  IF HandleTaken(others, updated.handle)
                     THEN /\ response' = Status(HTTP_500)
                          /\ UNCHANGED influencers
                     ELSE /\ influencers' =
                               [influencers EXCEPT ![Index(influencers, influencer_id)] = updated]
                          /\ response' = Status(HTTP_200)
    /\ writes' = IF influencers' = influencers THEN writes ELSE writes + 1
    /\ request' = [op |-> "update_influencer", user |-> user]
    /\ UNCHANGED <<brands, seen, billing, campaigns, inflight>>

\* delete_influencer (lines 88-100)
delete_influencer(user, influencer_id) ==
    /\ Idle
    /\ writes < MaxWrites
    /\ IF ~RequireRole(user, {"admin"})
       THEN /\ response' = Status(HTTP_403)
            /\ UNCHANGED influencers
       ELSE LET influencer == Get(influencers, influencer_id) IN
            IF influencer = None \/ Val(influencer).tenant_id # user.tenant_id
            THEN /\ response' = Status(HTTP_404)
                 /\ UNCHANGED influencers
            ELSE /\ influencers' = SelectSeq(influencers, LAMBDA r : r.id # influencer_id)
                 /\ response' = Status(HTTP_204)
    /\ writes' = IF influencers' = influencers THEN writes ELSE writes + 1
    /\ request' = [op |-> "delete_influencer", user |-> user]
    /\ UNCHANGED <<brands, seen, billing, campaigns, inflight>>

Max2(a, b) == IF a >= b THEN a ELSE b

\* the loop body of refresh_influencers (lines 122-133) for one influencer
Refreshed(inf, draw) ==
    LET current_followers == IF inf.followers = None \/ inf.followers = Some(0)
                             THEN draw.base ELSE Val(inf.followers)
    IN  [inf EXCEPT !.followers = Some(Max2(0, current_followers + draw.delta)),
                    !.engagement_rate = Some(draw.rate)]

\* refresh_influencers (lines 103-135)
refresh_influencers(user) ==
    /\ Idle
    /\ writes < MaxWrites
    /\ IF ~RequireRole(user, {"admin"})
       THEN /\ response' = Status(HTTP_403)
            /\ UNCHANGED influencers
       ELSE /\ \E draws \in [1..Len(influencers) -> RefreshDraws] :
                 influencers' = [i \in 1..Len(influencers) |->
                                    IF influencers[i].tenant_id = user.tenant_id
                                    THEN Refreshed(influencers[i], draws[i])
                                    ELSE influencers[i]]
            /\ response' = Status(HTTP_200)
    /\ writes' = IF influencers' = influencers THEN writes ELSE writes + 1
    /\ request' = [op |-> "refresh_influencers", user |-> user]
    /\ UNCHANGED <<brands, seen, billing, campaigns, inflight>>

----------------------------------------------------------------------------
(* brands.py: the endpoints on one brand *)

\* a brand is listed whatever its tenant
VisibleAnyTenant(user, brand) ==
    user.role = "admin" \/ brand.owner_id = user.id

\* the WHERE clauses of list_brands (lines 55-58)
Visible(user, brand) ==
    /\ brand.tenant_id = user.tenant_id
    /\ user.role = "admin" \/ brand.owner_id = user.id

\* BrandRead.model_validate(b): the tenant_id is not part of the schema
BrandRead(b) ==
    [ id |-> b.id, owner_id |-> b.owner_id, name |-> b.name,
      description |-> b.description, industry |-> b.industry,
      target_audience |-> b.target_audience ]

\* list_brands (lines 43-61), the rows in the order of the table
list_brands(user) ==
    /\ Idle
    /\ LET rows == SelectSeq(brands, LAMBDA b : Visible(user, b)) IN
       response' = [status |-> HTTP_200,
                    body |-> [i \in 1..Len(rows) |-> BrandRead(rows[i])],
                    fetched |-> FALSE, scored |-> 0]
    /\ request' = [op |-> "list_brands", user |-> user]
    /\ UNCHANGED <<influencers, brands, writes, seen, billing, campaigns, inflight>>

\* the two checks of lines 75-78, 93-96 and 114-117
BrandForbidden(user, brand) ==
    \/ brand.tenant_id # user.tenant_id
    \/ user.role # "admin" /\ brand.owner_id # user.id

\* get_brand (lines 64-79)
get_brand(user, brand_id) ==
    /\ Idle
    /\ LET brand == Get(brands, brand_id) IN
       response' = IF brand = None THEN Status(HTTP_404)
                   ELSE IF BrandForbidden(user, Val(brand)) THEN Status(HTTP_403)
                   ELSE [status |-> HTTP_200, body |-> <<BrandRead(Val(brand))>>,
                         fetched |-> FALSE, scored |-> 0]
    /\ request' = [op |-> "get_brand", user |-> user, brand_id |-> brand_id]
    /\ UNCHANGED <<influencers, brands, writes, seen, billing, campaigns, inflight>>

\* schemas.BrandUpdate bodies after model_dump(exclude_unset=True): the
\* schema has neither owner_id nor tenant_id
BrandUpdates ==
    { [ name |-> <<"G","o">> ],
      [ industry |-> None, target_audience |-> Some(<<"t","o"," ","d","o">>) ] }

\* update_brand (lines 82-102)
update_brand(user, brand_id, brand_in) ==
    /\ Idle
    /\ writes < MaxWrites
    /\ LET brand == Get(brands, brand_id) IN
       IF brand = None
       THEN /\ response' = Status(HTTP_404)
            /\ UNCHANGED brands
       ELSE IF BrandForbidden(user, Val(brand))
       THEN /\ response' = Status(HTTP_403)
            /\ UNCHANGED brands
       ELSE /\ brands' = [brands EXCEPT ![Index(brands, brand_id)] = SetAttrs(@, brand_in)]
            /\ response' = [status |-> HTTP_200,
                            body |-> <<BrandRead(SetAttrs(Val(brand), brand_in))>>,
                            fetched |-> FALSE, scored |-> 0]
    /\ writes' = IF brands' = brands THEN writes ELSE writes + 1
    /\ request' = [op |-> "update_brand", user |-> user, brand_id |-> brand_id]
    /\ UNCHANGED <<influencers, seen, billing, campaigns, inflight>>

\* delete_brand (lines 105-121); the campaigns of the brand go with it
\* (models.py lines 150-152, cascade="all, delete-orphan")
delete_brand(user, brand_id) ==
    /\ Idle
    /\ writes < MaxWrites
    /\ LET brand == Get(brands, brand_id) IN
       IF brand = None
       THEN /\ response' = Status(HTTP_404)
            /\ UNCHANGED <<brands, campaigns>>
       ELSE IF BrandForbidden(user, Val(brand))
       THEN /\ response' = Status(HTTP_403)
            /\ UNCHANGED <<brands, campaigns>>
       ELSE /\ brands' = SelectSeq(brands, LAMBDA b : b.id # brand_id)
            /\ campaigns' = SelectSeq(campaigns, LAMBDA c : c.brand_id # brand_id)
            /\ response' = Status(HTTP_204)
    /\ writes' = IF brands' = brands THEN writes ELSE writes + 1
    /\ request' = [op |-> "delete_brand", user |-> user, brand_id |-> brand_id]
    /\ UNCHANGED <<influencers, seen, billing, inflight>>

----------------------------------------------------------------------------
(* campaigns.py *)

CampaignIds == 1..(MaxWrites + 1)

\* schemas.CampaignCreate bodies, without their brand_id
CampaignPayloads ==
    { [ title |-> "launch", status |-> "draft" ] }

\* schemas.CampaignUpdate bodies after model_dump(exclude_unset=True): the
\* schema has neither brand_id nor tenant_id
CampaignUpdates ==
    { [ title |-> "relaunch" ], [ status |-> "active" ] }

\* no brand is of another tenant
TenantNeverDiffers(user, brand) == FALSE

\* lines 41-42: the brand belongs to another tenant than the caller
TenantDiffers(user, brand) == brand.tenant_id # user.tenant_id

\* create_campaign (lines 21-55)
create_campaign(user, brand_id, campaign_in) ==
    /\ Idle
    /\ writes < MaxWrites
    /\ LET brand == Get(brands, brand_id) IN
       IF brand = None
       THEN /\ response' = Status(HTTP_404)
            /\ UNCHANGED campaigns
       ELSE IF \/ user.role # "admin" /\ Val(brand).owner_id # user.id
               \/ TenantDiffers(user, Val(brand))
       THEN /\ response' = Status(HTTP_403)
            /\ UNCHANGED campaigns
       ELSE /\ campaigns' = Append(campaigns,
                               [ id |-> FreshId(campaigns, CampaignIds),
                                 brand_id |-> brand_id,
                                 title |-> campaign_in.title,
                                 status |-> campaign_in.status,
                                 tenant_id |-> user.tenant_id ])
            /\ response' = Status(HTTP_201)
    /\ writes' = IF campaigns' = campaigns THEN writes ELSE writes + 1
    /\ request' = [op |-> "create_campaign", user |-> user, brand_id |-> brand_id]
    /\ UNCHANGED <<influencers, brands, seen, billing, inflight>>

\* the checks shared by update_campaign and delete_campaign (lines 110-115
\* and 134-139)
CampaignForbidden(user, campaign) ==
    \/ campaign.tenant_id # user.tenant_id
    \/ /\ user.role # "admin"
       /\ LET brand == Get(brands, campaign.brand_id) IN
          brand = None \/ Val(brand).owner_id # user.id

\* update_campaign (lines 100-122)
update_campaign(user, campaign_id, campaign_in) ==
    /\ Idle
    /\ writes < MaxWrites
    /\ LET campaign == Get(campaigns, campaign_id) IN
       IF campaign = None
       THEN /\ response' = Status(HTTP_404)
            /\ UNCHANGED campaigns
       ELSE IF CampaignForbidden(user, Val(campaign))
       THEN /\ response' = Status(HTTP_403)
            /\ UNCHANGED campaigns
       ELSE /\ campaigns' = [campaigns EXCEPT
                                ![Index(campaigns, campaign_id)] = SetAttrs(@, campaign_in)]
            /\ response' = Status(HTTP_200)
    /\ writes' = IF campaigns' = campaigns THEN writes ELSE writes + 1
    /\ request' = [op |-> "update_campaign", user |-> user, campaign_id |-> campaign_id]
    /\ UNCHANGED <<influencers, brands, seen, billing, inflight>>

\* delete_campaign (lines 125-142)
delete_campaign(user, campaign_id) ==
    /\ Idle
    /\ writes < MaxWrites
    /\ LET campaign == Get(campaigns, campaign_id) IN
       IF campaign = None
       THEN /\ response' = Status(HTTP_404)
            /\ UNCHANGED campaigns
       ELSE IF CampaignForbidden(user, Val(campaign))
       THEN /\ response' = Status(HTTP_403)
            /\ UNCHANGED campaigns
       ELSE /\ campaigns' = SelectSeq(campaigns, LAMBDA c : c.id # campaign_id)
            /\ response' = Status(HTTP_204)
    /\ writes' = IF campaigns' = campaigns THEN writes ELSE writes + 1
    /\ request' = [op |-> "delete_campaign", user |-> user, campaign_id |-> campaign_id]
    /\ UNCHANGED <<influencers, brands, seen, billing, inflight>>

----------------------------------------------------------------------------
(* match.py: the endpoint *)

TopNDefault == 5

TopNMin == 1

TopNMax == 50

\* the top_n values a request is sent with; None is an omitted parameter
TopNInputs == {None} \cup {Some(n) : n \in {0, 1, TopNMax, TopNMax + 1}}

\* top_n: int = Query(5, ge=1, le=50) (line 45)
TopNParam(raw) == OrElse(raw, TopNDefault)

\* TopNValid without le=50
TopNValidNoMax(top_n) == top_n >= TopNMin

TopNValid(top_n) == top_n >= TopNMin /\ top_n <= TopNMax

\* BrandAccess without the tenant comparison of line 65
BrandAccessAnyTenant(user, brand) == IF brand = None THEN HTTP_404 ELSE HTTP_200

\* lines 62-66: the status the brand lookup ends with
BrandAccess(user, brand) ==
    IF brand = None THEN HTTP_404
    ELSE IF Val(brand).tenant_id # user.tenant_id THEN HTTP_403
    ELSE HTTP_200

\* match_influencers_for_brand (lines 42-113).  `fetched` tells whether the
\* influencer query of line 73 ran and `scored` how many influencers the loop
\* of lines 82-110 scored.
MatchResponse(user, brand_id, raw_top_n) ==
    LET top_n == TopNParam(raw_top_n)
        brand == Get(brands, brand_id)
    IN  IF ~TopNValid(top_n) THEN Status(HTTP_422)
        ELSE IF BrandAccess(user, brand) # HTTP_200 THEN Status(BrandAccess(user, brand))
        ELSE LET pool == InfluencersOfTenant(user.tenant_id) IN
             IF Len(pool) = 0
             THEN [status |-> HTTP_200, body |-> <<>>, fetched |-> TRUE, scored |-> 0]
             ELSE [status |-> HTTP_200, body |-> Rank(Val(brand), pool, top_n),
                   fetched |-> TRUE, scored |-> Len(pool)]

\* match_influencers_for_brand deleting the influencers it has ranked
match_consuming_the_pool(user, brand_id, raw_top_n) ==
    /\ Idle
    /\ request' = [op |-> "match", user |-> user, brand_id |-> brand_id, top_n |-> raw_top_n]
    /\ response' = MatchResponse(user, brand_id, raw_top_n)
    /\ influencers' = IF response'.status = HTTP_200
                      THEN SelectSeq(influencers, LAMBDA inf : inf.tenant_id # user.tenant_id)
                      ELSE influencers
    /\ UNCHANGED <<brands, writes, seen, billing, campaigns, inflight>>

match_influencers_for_brand(user, brand_id, raw_top_n) ==
    /\ Idle
    /\ request' = [op |-> "match", user |-> user, brand_id |-> brand_id, top_n |-> raw_top_n]
    /\ response' = MatchResponse(user, brand_id, raw_top_n)
    /\ UNCHANGED <<influencers, brands, writes, seen, billing, campaigns, inflight>>

----------------------------------------------------------------------------
(* influencers.py: search_influencers *)

OrderDefault == <<"d","e","s","c">>

NoCriteria ==
    [ q |-> None, platform |-> None, min_followers |-> None, max_followers |-> None,
      min_engagement_rate |-> None, max_engagement_rate |-> None, country |-> None,
      topic |-> None, sort_by |-> None, order |-> OrderDefault ]

RangeCriteria ==
    { [NoCriteria EXCEPT !.min_followers = a, !.max_followers = b,
                         !.min_engagement_rate = c, !.max_engagement_rate = d] :
        a \in {None, Some(100)}, b \in {None, Some(50)},
        c \in {None, Some(400)}, d \in {None, Some(100)} }

TextCriteria ==
    { [NoCriteria EXCEPT !.q = a, !.platform = b, !.country = c, !.topic = d] :
        a \in {None, Some(<<"E","C","O">>)}, b \in {None, Some(<<"t","i","k","t","o","k">>)},
        c \in {None, Some(<<"u","s">>)}, d \in {None, Some(<<"f","i","t">>)} }

MixedCriteria ==
    { [NoCriteria EXCEPT !.q = Some(<<>>), !.platform = Some(<<>>)],
      [NoCriteria EXCEPT !.q = Some(<<"e","_","o">>)],
      [NoCriteria EXCEPT !.q = Some(<<"e","c","o">>), !.min_followers = Some(100),
                         !.max_engagement_rate = Some(400)],
      [NoCriteria EXCEPT !.platform = Some(<<"t","i","k","t","o","k">>),
                         !.min_followers = Some(100)] }

SortCriteria ==
    { [NoCriteria EXCEPT !.sort_by = Some(c), !.order = o] :
        c \in { <<"f","o","l","l","o","w","e","r","s">>,
                <<"e","n","g","a","g","e","m","e","n","t","_","r","a","t","e">>,
                <<"n","a","m","e">> },
        o \in { OrderDefault, <<"D","E","S","C">>, <<"a","s","c">> } }

SearchCriteria == RangeCriteria \cup TextCriteria \cup MixedCriteria \cup SortCriteria

\* the criteria the directory is searched with next to the matching requests
CoreCriteria ==
    { NoCriteria,
      [NoCriteria EXCEPT !.q = Some(<<"e","c","o">>)],
      [NoCriteria EXCEPT !.platform = Some(<<"t","i","k","t","o","k">>),
                         !.min_followers = Some(100)] }

\* Python truthiness of an Optional[str]: None and "" are falsy
Truthy(text) == text # None /\ Len(Val(text)) > 0

\* AtLeastOrNull without the `| (column == None)`
AtLeastNotNull(column, bound) == column # None /\ Val(column) >= bound

\* (column >= bound) | (column == None)  (lines 184, 188)
AtLeastOrNull(column, bound) == column = None \/ Val(column) >= bound

\* (column <= bound) | (column == None)  (lines 186, 190)
AtMostOrNull(column, bound) == column = None \/ Val(column) <= bound

\* one WHERE clause evaluated on one row
RowPasses(row, clause) ==
    CASE clause.kind = "tenant_id" -> row.tenant_id = clause.arg
      [] clause.kind = "q" ->
            \/ ILike(Some(row.name), clause.arg)
            \/ ILike(Some(row.handle), clause.arg)
            \/ ILike(row.topics, clause.arg)
            \/ ILike(row.bio, clause.arg)
      [] clause.kind = "platform" -> ILike(Some(row.platform), clause.arg)
      [] clause.kind = "country" -> ILike(row.country, clause.arg)
      [] clause.kind = "topic" -> ILike(row.topics, clause.arg)
      [] clause.kind = "min_followers" -> AtLeastOrNull(row.followers, clause.arg)
      [] clause.kind = "max_followers" -> AtMostOrNull(row.followers, clause.arg)
      [] clause.kind = "min_engagement_rate" -> AtLeastOrNull(row.engagement_rate, clause.arg)
      [] clause.kind = "max_engagement_rate" -> AtMostOrNull(row.engagement_rate, clause.arg)

\* Where without the `if`: the clause is added for an absent criterion too
WhereAlways(stmt, cond, kind, arg) == Append(stmt, [kind |-> kind, arg |-> arg])

\* stmt = stmt.where(...) under the `if` that guards it
Where(stmt, cond, kind, arg) ==
    IF cond THEN Append(stmt, [kind |-> kind, arg |-> arg]) ELSE stmt

\* the base query of line 160
BaseStmt(user) == <<[kind |-> "tenant_id", arg |-> user.tenant_id]>>

\* the WHERE clauses of stmt as lines 160-190 build them
SearchStmt(user, c) ==
    LET s0 == BaseStmt(user)
        s1 == Where(s0, Truthy(c.q), "q", Contains(OrElse(c.q, <<>>)))
        s2 == Where(s1, Truthy(c.platform), "platform", OrElse(c.platform, <<>>))
        s3 == Where(s2, Truthy(c.country), "country", OrElse(c.country, <<>>))
        s4 == Where(s3, Truthy(c.topic), "topic", Contains(OrElse(c.topic, <<>>)))
        s5 == Where(s4, c.min_followers # None, "min_followers", OrElse(c.min_followers, 0))
        s6 == Where(s5, c.max_followers # None, "max_followers", OrElse(c.max_followers, 0))
        s7 == Where(s6, c.min_engagement_rate # None, "min_engagement_rate",
                    OrElse(c.min_engagement_rate, 0))
    IN  Where(s7, c.max_engagement_rate # None, "max_engagement_rate",
              OrElse(c.max_engagement_rate, 0))

\* the rows a statement selects, in scan order
Selected(stmt) ==
    SelectSeq(influencers, LAMBDA row : \A k \in 1..Len(stmt) : RowPasses(row, stmt[k]))

\* SortColumns with a third column name accepted
SortColumnsWithName ==
    { <<"f","o","l","l","o","w","e","r","s">>,
      <<"e","n","g","a","g","e","m","e","n","t","_","r","a","t","e">>,
      <<"n","a","m","e">> }

SortColumns == { <<"f","o","l","l","o","w","e","r","s">>,
                 <<"e","n","g","a","g","e","m","e","n","t","_","r","a","t","e">> }

\* getattr(Influencer, sort_by) on a row
SortKey(row, sort_by) ==
    IF sort_by = <<"f","o","l","l","o","w","e","r","s">> THEN row.followers
    ELSE row.engagement_rate

\* a <= b in the ORDER BY of the database: NULLs sort lowest (SQLite) or
\* highest (PostgreSQL)
KeyLeq(a, b, nulls_low) ==
    IF a = None /\ b = None THEN TRUE
    ELSE IF a = None THEN nulls_low
    ELSE IF b = None THEN ~nulls_low
    ELSE Val(a) <= Val(b)

\* IsDesc without the .lower()
IsDescExact(order) == order = <<"d","e","s","c">>

\* order.lower() == "desc" (line 194)
IsDesc(order) == Lower(order) = <<"d","e","s","c">>

IndexPermutations(n) == {f \in [1..n -> 1..n] : \A i, j \in 1..n : f[i] = f[j] => i = j}

\* the orders in which the database may return `rows` under the ORDER BY of
\* line 194, or the scan order when no ORDER BY is added
Orderings(rows, c, nulls_low) ==
    IF c.sort_by \in {Some(col) : col \in SortColumns}
    THEN { [i \in 1..Len(rows) |-> rows[f[i]]] : f \in
             { g \in IndexPermutations(Len(rows)) :
                 \A i, j \in 1..Len(rows) : i < j =>
                    LET ki == SortKey(rows[g[i]], Val(c.sort_by))
                        kj == SortKey(rows[g[j]], Val(c.sort_by))
                    IN  IF IsDesc(c.order) THEN KeyLeq(kj, ki, nulls_low)
                        ELSE KeyLeq(ki, kj, nulls_low) } }
    ELSE {rows}

\* InfluencerRead.model_validate(i): the response schema has no tenant_id
InfluencerRead(row) ==
    [ id |-> row.id, handle |-> row.handle, name |-> row.name, platform |-> row.platform,
      followers |-> row.followers, engagement_rate |-> row.engagement_rate,
      topics |-> row.topics, bio |-> row.bio, country |-> row.country ]

\* search_influencers (lines 138-198)
search_influencers(user, c) ==
    /\ Idle
    /\ \E nulls_low \in BOOLEAN :
         \E rows \in Orderings(Selected(SearchStmt(user, c)), c, nulls_low) :
            response' = [status |-> HTTP_200,
                         body |-> [i \in 1..Len(rows) |-> InfluencerRead(rows[i])],
                         fetched |-> TRUE, scored |-> 0]
    /\ request' = [op |-> "search", user |-> user, criteria |-> c]
    /\ UNCHANGED <<influencers, brands, writes, seen, billing, campaigns, inflight>>

----------------------------------------------------------------------------
(* influencers.py: how a GET request below /influencers finds its handler *)

\* the text of an id in a path; the program's ids are uuid texts, the
\* model's ids are written in decimal
IdText(id) == <<"1", "2", "3", "4", "5", "6", "7", "8", "9">>[id]

\* the id a path segment is the text of, None if it is no id
ParseId(segment) ==
    LET ids == {id \in InfluencerIds : IdText(id) = segment}
    IN  IF ids = {} THEN None ELSE Some(CHOOSE id \in ids : TRUE)

\* get_influencer (lines 57-67); influencer_id is the text of the path
get_influencer(user, influencer_id) ==
    /\ Idle
    /\ LET id == ParseId(influencer_id)
           influencer == IF id = None THEN None ELSE Get(influencers, Val(id))
       IN  response' =
              IF influencer = None \/ Val(influencer).tenant_id # user.tenant_id
              THEN Status(HTTP_404)
              ELSE [status |-> HTTP_200, body |-> <<InfluencerRead(Val(influencer))>>,
                    fetched |-> FALSE, scored |-> 0]
    /\ request' = [op |-> "get_influencer", user |-> user, influencer_id |-> influencer_id]
    /\ UNCHANGED <<influencers, brands, writes, seen, billing, campaigns, inflight>>

\* the GET routes with one path segment below the prefix /influencers, in
\* the order of their decorators (lines 57 and 138)
InfluencerGetRoutes ==
    << [ segment |-> [param |-> "influencer_id"], endpoint |-> "get_influencer" ],
       [ segment |-> [literal |-> "search"],      endpoint |-> "search_influencers" ] >>

\* a path parameter of type str matches every segment, a literal itself
RouteMatches(route, segment) ==
    "param" \in DOMAIN route.segment \/ route.segment.literal = segment

\* the router takes the first route that matches, in the order of `routes`
FirstMatch(routes, segment) ==
    LET found == {i \in 1..Len(routes) : RouteMatches(routes[i], segment)}
    IN  routes[CHOOSE i \in found : \A j \in found : i <= j].endpoint

\* the segments requests are sent with: the ids of the directory as text,
\* and "search"
Segments == {IdText(id) : id \in RequestIds(influencers, InfluencerIds)} \cup {"search"}

\* GET /influencers/<segment> with the query parameters c
get_influencers_path(user, segment, c) ==
    IF FirstMatch(InfluencerGetRoutes, segment) = "get_influencer"
    THEN get_influencer(user, segment)
    ELSE search_influencers(user, c)

----------------------------------------------------------------------------
(* data_collection/pipeline.py: scraped profiles stored in the influencers
   table.  A tenant is named by its name; get_or_create_tenant (lines 92-112)
   gives every name one id, which the model writes as the name itself. *)

\* raw profiles as the scrapers hand them over: a profile may lack a key
RawProfiles ==
    { [ handle |-> <<"E","c","o">>, name |-> <<"E","c","o">>,
        platform |-> <<"y","t">>, followers |-> Some(500) ],
      [ handle |-> <<"e","c","o">>, name |-> <<"e","c","o">>,
        platform |-> <<"y","t">>, followers |-> Some(900),
        engagement_rate |-> Some(350) ],
      [ handle |-> <<"a","l">>, name |-> <<"A","l">>,
        platform |-> <<"y","t">>, followers |-> Some(100) ],
      [ handle |-> <<"a","l">>, name |-> <<"A","l">>,
        platform |-> <<"y","t">>, followers |-> None ],
      [ handle |-> <<"a","l">>, name |-> <<"A","l">>,
        platform |-> <<"y","t">>, followers |-> Some(0) ],
      [ handle |-> <<"a","l">>, name |-> <<"A","l">>, followers |-> Some(100) ] }

\* the batches process_and_store is called with
RawBatches ==
    {<<p>> : p \in RawProfiles} \cup {<<p, q>> : p, q \in RawProfiles}

\* profile.get(key)
GetKey(profile, key) == IF key \in DOMAIN profile THEN profile[key] ELSE None

\* normalise_profile (lines 115-151), id being the uuid of line 132
normalise_profile(profile, tenant_id, id) ==
    IF ~({"handle", "name", "platform"} \subseteq DOMAIN profile)
    THEN None
    ELSE IF GetKey(profile, "followers") = None \/ Val(profile.followers) <= 0
    THEN None
    ELSE Some([ id |-> id,
                tenant_id |-> tenant_id,
                handle |-> Lower(profile.handle),
                name |-> profile.name,
                platform |-> profile.platform,
                followers |-> profile.followers,
                engagement_rate |-> GetKey(profile, "engagement_rate"),
                topics |-> GetKey(profile, "topics"),
                bio |-> GetKey(profile, "bio"),
                country |-> GetKey(profile, "country") ])

\* lines 189-193: the profiles that normalise, each with an id that neither
\* a row nor an earlier profile has
RECURSIVE Processed(_, _, _)
Processed(raw_profiles, tenant_id, taken) ==
    IF raw_profiles = <<>> THEN <<>>
    ELSE LET free == {id \in InfluencerIds : id \notin taken}
             id   == CHOOSE id \in free : \A other \in free : id <= other
             norm == normalise_profile(Head(raw_profiles), tenant_id, id)
         IN  IF norm = None
             THEN Processed(Tail(raw_profiles), tenant_id, taken)
             ELSE <<Val(norm)>> \o Processed(Tail(raw_profiles), tenant_id, taken \cup {id})

\* upsert_profiles (lines 154-176): INSERT OR REPLACE removes the rows that
\* have the id or the handle (UNIQUE, line 67) of the new row, then inserts it
RECURSIVE upsert_profiles(_, _)
upsert_profiles(rows, profiles) ==
    IF profiles = <<>> THEN rows
    ELSE LET new == Head(profiles) IN
         upsert_profiles(
            Append(SelectSeq(rows, LAMBDA r : r.id # new.id /\ r.handle # new.handle), new),
            Tail(profiles))

\* process_and_store (lines 179-198); it returns the number of profiles stored
process_and_store(raw_profiles, tenant_name) ==
    /\ Idle
    /\ writes + Len(raw_profiles) <= MaxWrites
    /\ LET processed == Processed(raw_profiles, tenant_name,
                                  {influencers[i].id : i \in 1..Len(influencers)})
       IN  /\ influencers' = IF processed = <<>> THEN influencers
                             ELSE upsert_profiles(influencers, processed)
           /\ writes' = writes + Len(processed)
           /\ response' = [status |-> 0, body |-> <<Len(processed)>>,
                           fetched |-> FALSE, scored |-> 0]
    /\ request' = [op |-> "process_and_store", tenant_name |-> tenant_name]
    /\ UNCHANGED <<brands, seen, billing, campaigns, inflight>>

----------------------------------------------------------------------------
(* subscriptions.py: plans and subscriptions *)

PlanIds == 1..(MaxWrites + 1)

SubscriptionIds == 1..(MaxWrites + 1)

\* the last instant of the clock; datetime.utcnow() reads some instant
MaxInstant == 2

Instants == 1..MaxInstant

\* schemas.SubscriptionPlanCreate bodies: name, active, stripe_price_id
PlanPayloads ==
    { [ name |-> "basic", active |-> TRUE,  stripe_price_id |-> None ],
      [ name |-> "pro",   active |-> TRUE,  stripe_price_id |-> Some("price_pro") ],
      [ name |-> "old",   active |-> FALSE, stripe_price_id |-> None ] }

\* the UNIQUE constraint on subscription_plans.name (models.py line 272)
PlanNameTaken(name) == \E i \in 1..Len(plans) : plans[i].name = name

\* create_plan (lines 45-56)
create_plan(user, plan_in) ==
    /\ Idle
    /\ writes < MaxWrites
    /\ IF ~RequireRole(user, {"admin"})
       THEN /\ response' = Status(HTTP_403)
            /\ UNCHANGED plans
       ELSE IF PlanNameTaken(plan_in.name)
       THEN /\ response' = Status(HTTP_500)
            /\ UNCHANGED plans
       ELSE /\ plans' = Append(plans, [ id |-> FreshId(plans, PlanIds),
                                        name |-> plan_in.name,
                                        active |-> plan_in.active,
                                        stripe_price_id |-> plan_in.stripe_price_id ])
            /\ response' = Status(HTTP_201)
    /\ writes' = IF plans' = plans THEN writes ELSE writes + 1
    /\ request' = [op |-> "create_plan", user |-> user]
    /\ UNCHANGED <<influencers, brands, seen, subscriptions, campaigns, inflight>>

\* schemas.SubscriptionCreate bodies without the plan_id: start_date,
\* end_date and status are Optional and set by the client
SubscriptionPayloads ==
    { [ start_date |-> None, end_date |-> e, status |-> st ] :
        e \in {None, Some(1)}, st \in {None, Some("active"), Some("cancelled")} }

\* select(Subscription).where(user_id == ..., status == active) and first():
\* the position of the first active subscription of the user, 0 if none
FirstActive(user_id) ==
    LET found == {i \in 1..Len(subscriptions) :
                     /\ subscriptions[i].user_id = user_id
                     /\ subscriptions[i].status = "active"}
    IN  IF found = {} THEN 0 ELSE CHOOSE i \in found : \A j \in found : i <= j

\* Cancelled leaving the rows as they are
CancelledNot(rows, i, now) == rows

\* lines 99-101: existing.status = cancelled; existing.end_date = utcnow()
Cancelled(rows, i, now) ==
    IF i = 0 THEN rows
    ELSE [rows EXCEPT ![i] = [@ EXCEPT !.status = "cancelled", !.end_date = Some(now)]]

\* SubscriptionRead.model_validate(sub)
SubscriptionRead(sub) ==
    [ id |-> sub.id, user_id |-> sub.user_id, plan_id |-> sub.plan_id,
      start_date |-> sub.start_date, end_date |-> sub.end_date, status |-> sub.status ]

\* a plan is refused only when it is missing
PlanMissing(plan) == plan = None

\* lines 88-89: if not plan or not plan.active
PlanUnavailable(plan) == plan = None \/ ~Val(plan).active

\* subscribe_to_plan (lines 77-114)
subscribe_to_plan(user, plan_id, sub_in) ==
    /\ Idle
    /\ writes < MaxWrites
    /\ LET plan == Get(plans, plan_id) IN
       IF PlanUnavailable(plan)
       THEN /\ response' = Status(HTTP_404)
            /\ UNCHANGED subscriptions
       ELSE \E now \in Instants :
              LET sub == [ id |-> FreshId(subscriptions, SubscriptionIds),
                           user_id |-> user.id,
                           plan_id |-> plan_id,
                           start_date |-> OrElse(sub_in.start_date, now),
                           end_date |-> sub_in.end_date,
                           status |-> OrElse(sub_in.status, "active"),
                           tenant_id |-> user.tenant_id ]
              IN  /\ subscriptions' =
                        Append(Cancelled(subscriptions, FirstActive(user.id), now), sub)
                  /\ response' = [status |-> HTTP_201, body |-> <<SubscriptionRead(sub)>>,
                                  fetched |-> FALSE, scored |-> 0]
    /\ writes' = IF subscriptions' = subscriptions THEN writes ELSE writes + 1
    /\ request' = [op |-> "subscribe", user |-> user, plan_id |-> plan_id, sub_in |-> sub_in]
    /\ UNCHANGED <<influencers, brands, seen, plans, campaigns, inflight>>

\* the first active subscription of the user in the user's tenant (lines
\* 123-130), 0 if none
FirstActiveInTenant(user) ==
    LET found == {i \in 1..Len(subscriptions) :
                     /\ subscriptions[i].user_id = user.id
                     /\ subscriptions[i].status = "active"
                     /\ subscriptions[i].tenant_id = user.tenant_id}
    IN  IF found = {} THEN 0 ELSE CHOOSE i \in found : \A j \in found : i <= j

\* cancel_my_subscription (lines 117-137)
cancel_my_subscription(user) ==
    /\ Idle
    /\ writes < MaxWrites
    /\ LET i == FirstActiveInTenant(user) IN
       IF i = 0
       THEN /\ response' = Status(HTTP_404)
            /\ UNCHANGED subscriptions
       ELSE \E now \in Instants :
              /\ subscriptions' = Cancelled(subscriptions, i, now)
              /\ response' = [status |-> HTTP_200,
                              body |-> <<SubscriptionRead(subscriptions'[i])>>,
                              fetched |-> FALSE, scored |-> 0]
    /\ writes' = IF subscriptions' = subscriptions THEN writes ELSE writes + 1
    /\ request' = [op |-> "cancel", user |-> user]
    /\ UNCHANGED <<influencers, brands, seen, plans, campaigns, inflight>>

\* User.email of the users (models.py line 101, unique)
EmailOf(user) ==
    CASE user.id = "admin1"  -> "admin1@t1.example"
      [] user.id = "client1" -> "client1@t1.example"
      [] user.id = "admin2"  -> "admin2@t2.example"

\* what stripe_webhook gets out of a request: `valid` tells whether the
\* payload parses (lines 220-229), customer_email and subscription are the
\* fields of the session object, and price_id is the price of the Stripe
\* subscription, None when stripe.Subscription.retrieve raises (lines 239-243)
WebhookEvents ==
    { [ valid |-> FALSE, type |-> "", customer_email |-> None,
        subscription |-> None, price_id |-> None ],
      [ valid |-> TRUE, type |-> "invoice.paid",
        customer_email |-> Some("admin1@t1.example"),
        subscription |-> Some("sub_1"), price_id |-> Some("price_pro") ],
      [ valid |-> TRUE, type |-> "checkout.session.completed",
        customer_email |-> None,
        subscription |-> Some("sub_1"), price_id |-> Some("price_pro") ],
      [ valid |-> TRUE, type |-> "checkout.session.completed",
        customer_email |-> Some("nobody@t1.example"),
        subscription |-> Some("sub_1"), price_id |-> Some("price_pro") ] }
    \cup
    { [ valid |-> TRUE, type |-> "checkout.session.completed",
        customer_email |-> Some(e), subscription |-> Some("sub_1"), price_id |-> pr ] :
        e \in {"admin1@t1.example", "admin2@t2.example"},
        pr \in {None, Some("price_pro"), Some("price_gone")} }

\* select(User).where(User.email == customer_email) and first()
UserByEmail(email) == {user \in Users : EmailOf(user) = email}

\* select(SubscriptionPlan).where(SubscriptionPlan.stripe_price_id ==
\* price_id) and first(): the position of the first such plan, 0 if none.
\* For price_id None the comparison is rendered as IS NULL, which the plans
\* without a stripe_price_id satisfy.
PlanByPrice(price_id) ==
    LET found == {i \in 1..Len(plans) : plans[i].stripe_price_id = price_id}
    IN  IF found = {} THEN 0 ELSE CHOOSE i \in found : \A j \in found : i <= j

\* the rows of lines 250-267: the user's first active subscription cancelled
\* and a new active subscription for the plan added
WebhookSubscribed(rows, user, plan, now) ==
    Append(Cancelled(rows, FirstActive(user.id), now),
           [ id |-> FreshId(rows, SubscriptionIds),
             user_id |-> user.id,
             plan_id |-> plan.id,
             start_date |-> now,
             end_date |-> None,
             status |-> "active",
             tenant_id |-> user.tenant_id ])

\* stripe_webhook (lines 202-269), with the stripe library installed
stripe_webhook(event) ==
    /\ Idle
    /\ writes < MaxWrites
    /\ IF ~event.valid
       THEN /\ response' = Status(HTTP_400)
            /\ UNCHANGED subscriptions
       ELSE /\ response' = Status(HTTP_200)
            /\ IF /\ event.type = "checkout.session.completed"
                  /\ event.customer_email # None
                  /\ event.subscription # None
                  /\ UserByEmail(Val(event.customer_email)) # {}
                  /\ PlanByPrice(event.price_id) # 0
               THEN \E now \in Instants :
                      subscriptions' =
                         WebhookSubscribed(subscriptions,
                                           CHOOSE user \in UserByEmail(Val(event.customer_email)) : TRUE,
                                           plans[PlanByPrice(event.price_id)], now)
               ELSE UNCHANGED subscriptions
    /\ writes' = IF subscriptions' = subscriptions THEN writes ELSE writes + 1
    /\ request' = [op |-> "webhook", event |-> event]
    /\ UNCHANGED <<influencers, brands, seen, plans, campaigns, inflight>>

----------------------------------------------------------------------------
(* subscribe_to_plan and stripe_webhook as coroutines.  Every request has a
   database session of its own; the handler reads at its awaits and its
   changes reach the table at `await session.commit()`.  inflight holds the
   handlers that are suspended before their commit, with what they have read:
   `existing` is the position of the active subscription they selected, 0 if
   there was none. *)

\* sequence s without its i-th element
Without(s, i) == [j \in 1..(Len(s) - 1) |-> IF j < i THEN s[j] ELSE s[j + 1]]

\* subscribe_to_plan up to the await of line 112
subscribe_select(user, plan_id, sub_in) ==
    /\ writes + Len(inflight) < MaxWrites
    /\ LET plan == Get(plans, plan_id) IN
       IF PlanUnavailable(plan)
       THEN /\ response' = Status(HTTP_404)
            /\ UNCHANGED inflight
       ELSE /\ \E now \in Instants :
                 inflight' = Append(inflight,
                     [ op |-> "subscribe",
                       existing |-> FirstActive(user.id),
                       now |-> now,
                       sub |-> [ user_id |-> user.id,
                                 plan_id |-> plan_id,
                                 start_date |-> OrElse(sub_in.start_date, now),
                                 end_date |-> sub_in.end_date,
                                 status |-> OrElse(sub_in.status, "active"),
                                 tenant_id |-> user.tenant_id ] ])
            /\ UNCHANGED response
    /\ UNCHANGED <<influencers, brands, writes, request, seen, plans, subscriptions, campaigns>>

\* stripe_webhook up to the await of line 267
webhook_select(event) ==
    /\ writes + Len(inflight) < MaxWrites
    /\ IF /\ event.valid
          /\ event.type = "checkout.session.completed"
          /\ event.customer_email # None
          /\ event.subscription # None
          /\ UserByEmail(Val(event.customer_email)) # {}
          /\ PlanByPrice(event.price_id) # 0
       THEN /\ \E now \in Instants :
                 LET user == CHOOSE u \in UserByEmail(Val(event.customer_email)) : TRUE IN
                 inflight' = Append(inflight,
                     [ op |-> "webhook",
                       existing |-> FirstActive(user.id),
                       now |-> now,
                       sub |-> [ user_id |-> user.id,
                                 plan_id |-> plans[PlanByPrice(event.price_id)].id,
                                 start_date |-> now,
                                 end_date |-> None,
                                 status |-> "active",
                                 tenant_id |-> user.tenant_id ] ])
            /\ UNCHANGED response
       ELSE /\ response' = Status(IF event.valid THEN HTTP_200 ELSE HTTP_400)
            /\ UNCHANGED inflight
    /\ UNCHANGED <<influencers, brands, writes, request, seen, plans, subscriptions, campaigns>>

\* `await session.commit()` of the i-th suspended handler (lines 112 and
\* 267): the subscription it selected is written as cancelled, its new
\* subscription is inserted, and the handler answers
commit(i) ==
    /\ i \in 1..Len(inflight)
    /\ LET h == inflight[i]
           sub == [ id |-> FreshId(subscriptions, SubscriptionIds),
                    user_id |-> h.sub.user_id,
                    plan_id |-> h.sub.plan_id,
                    start_date |-> h.sub.start_date,
                    end_date |-> h.sub.end_date,
                    status |-> h.sub.status,
                    tenant_id |-> h.sub.tenant_id ]
       IN  /\ subscriptions' = Append(Cancelled(subscriptions, h.existing, h.now), sub)
           /\ response' = IF h.op = "webhook" THEN Status(HTTP_200)
                          ELSE [status |-> HTTP_201, body |-> <<SubscriptionRead(sub)>>,
                                fetched |-> FALSE, scored |-> 0]
    /\ inflight' = Without(inflight, i)
    /\ writes' = writes + 1
    /\ UNCHANGED <<influencers, brands, request, seen, plans, campaigns>>

----------------------------------------------------------------------------
(* The system *)

Init ==
    /\ influencers = <<>>
    /\ brands = <<>>
    /\ writes = 0
    /\ request = NoRequest
    /\ response = NoResponse
    /\ seen = NoSeen
    /\ plans = <<>>
    /\ subscriptions = <<>>
    /\ campaigns = <<>>
    /\ inflight = <<>>

\* the caller takes the response: the next request can be sent
deliver ==
    /\ ~Idle
    /\ request' = NoRequest
    /\ response' = NoResponse
    /\ UNCHANGED <<influencers, brands, writes, seen, billing, campaigns, inflight>>

\* brands, the influencer directory and the matching endpoint
Next ==
    \/ deliver
    \/ \E user \in Users, brand_in \in BrandPayloads : create_brand(user, brand_in)
    \/ \E user \in Users, influencer_in \in InfluencerPayloads :
          create_influencer(user, influencer_in)
    \/ \E user \in Users, id \in RequestIds(influencers, InfluencerIds),
          influencer_in \in InfluencerUpdates :
          update_influencer(user, id, influencer_in)
    \/ \E user \in Users, id \in RequestIds(influencers, InfluencerIds) :
          delete_influencer(user, id)
    \/ \E user \in Users : refresh_influencers(user)
    \/ \E user \in Users, brand_id \in RequestIds(brands, BrandIds), raw_top_n \in TopNInputs :
          match_influencers_for_brand(user, brand_id, raw_top_n)
    \/ \E user \in Users, c \in CoreCriteria : search_influencers(user, c)

Spec == Init /\ [][Next]_vars

\* the influencer directory alone, searched with every criteria of SearchCriteria
NextSearch ==
    \/ deliver
    \/ \E user \in Users, influencer_in \in InfluencerPayloads :
          create_influencer(user, influencer_in)
    \/ \E user \in Users, id \in RequestIds(influencers, InfluencerIds),
          influencer_in \in InfluencerUpdates :
          update_influencer(user, id, influencer_in)
    \/ \E user \in Users, id \in RequestIds(influencers, InfluencerIds) :
          delete_influencer(user, id)
    \/ \E user \in Users : refresh_influencers(user)
    \/ \E user \in Users, c \in SearchCriteria : search_influencers(user, c)

SpecSearch == Init /\ [][NextSearch]_vars

\* the caller takes the response of a match request and keeps it
keep_match ==
    /\ request.op = "match"
    /\ seen' = [request |-> request, response |-> response]
    /\ request' = NoRequest
    /\ response' = NoResponse
    /\ UNCHANGED <<influencers, brands, writes, billing, campaigns, inflight>>

\* the callers of the repeated requests: an admin of each tenant
RepeatUsers == {user \in Users : user.role = "admin"}

\* the top_n values of the repeated requests
RepeatTopN == {None, Some(1)}

\* matching requests repeated over a store that is left as it is once a
\* response has been kept
NextRepeat ==
    \/ deliver
    \/ keep_match
    \/ \E user \in RepeatUsers, brand_in \in BrandPayloads :
          seen = NoSeen /\ create_brand(user, brand_in)
    \/ \E user \in RepeatUsers, influencer_in \in InfluencerPayloads :
          seen = NoSeen /\ create_influencer(user, influencer_in)
    \/ \E user \in RepeatUsers, id \in RequestIds(influencers, InfluencerIds),
          influencer_in \in InfluencerUpdates :
          seen = NoSeen /\ update_influencer(user, id, influencer_in)
    \/ \E user \in RepeatUsers, brand_id \in RequestIds(brands, BrandIds),
          raw_top_n \in RepeatTopN :
          match_influencers_for_brand(user, brand_id, raw_top_n)

SpecRepeat == Init /\ [][NextRepeat]_vars

\* plans and subscriptions
NextBilling ==
    \/ deliver
    \/ \E user \in Users, plan_in \in PlanPayloads : create_plan(user, plan_in)
    \/ \E user \in Users, plan_id \in RequestIds(plans, PlanIds),
          sub_in \in SubscriptionPayloads :
          subscribe_to_plan(user, plan_id, sub_in)
    \/ \E user \in Users : cancel_my_subscription(user)
    \/ \E event \in WebhookEvents : stripe_webhook(event)

SpecBilling == Init /\ [][NextBilling]_vars

\* the caller takes the response of a search request and keeps it
keep_search ==
    /\ request.op = "search"
    /\ seen' = [request |-> request, response |-> response]
    /\ request' = NoRequest
    /\ response' = NoResponse
    /\ UNCHANGED <<influencers, brands, writes, billing, campaigns, inflight>>

\* schemas.InfluencerCreate bodies with different followers counts
IsolationPayloads ==
    { [ handle |-> <<"e","c","o">>, name |-> <<"E","c","o">>, platform |-> <<"y","t">>,
        followers |-> Some(500), engagement_rate |-> Some(350),
        topics |-> None, bio |-> None, country |-> None ],
      [ handle |-> <<"b","i","g">>, name |-> <<"B","i","g">>, platform |-> <<"y","t">>,
        followers |-> Some(900), engagement_rate |-> None,
        topics |-> None, bio |-> None, country |-> None ] }

\* once a response is kept, only users of other tenants than the caller's
\* may write
MayWrite(user) ==
    IF seen = NoSeen THEN TRUE ELSE user.tenant_id # seen.request.user.tenant_id

\* a match or search request before and after other tenants change their
\* brands and influencers
NextIsolation ==
    \/ deliver
    \/ seen = NoSeen /\ keep_match
    \/ seen = NoSeen /\ keep_search
    \/ \E user \in RepeatUsers, brand_in \in BrandPayloads :
          MayWrite(user) /\ create_brand(user, brand_in)
    \/ \E user \in RepeatUsers, influencer_in \in IsolationPayloads :
          MayWrite(user) /\ create_influencer(user, influencer_in)
    \/ \E user \in RepeatUsers, id \in RequestIds(influencers, InfluencerIds),
          influencer_in \in InfluencerUpdates :
          MayWrite(user) /\ update_influencer(user, id, influencer_in)
    \/ \E user \in RepeatUsers, id \in RequestIds(influencers, InfluencerIds) :
          MayWrite(user) /\ delete_influencer(user, id)
    \/ \E user \in RepeatUsers, brand_id \in RequestIds(brands, BrandIds) :
          match_influencers_for_brand(user, brand_id, None)
    \/ \E user \in RepeatUsers, c \in CoreCriteria : search_influencers(user, c)

SpecIsolation == Init /\ [][NextIsolation]_vars

\* scraped profiles stored for one tenant or another
NextPipeline ==
    \/ deliver
    \/ \E raw_profiles \in RawBatches, tenant_name \in Tenants :
          process_and_store(raw_profiles, tenant_name)

SpecPipeline == Init /\ [][NextPipeline]_vars

\* GET requests below /influencers
NextRoutes ==
    \/ deliver
    \/ \E user \in Users, influencer_in \in InfluencerPayloads :
          create_influencer(user, influencer_in)
    \/ \E user \in Users, segment \in Segments, c \in CoreCriteria :
          get_influencers_path(user, segment, c)

SpecRoutes == Init /\ [][NextRoutes]_vars

\* brands and their campaigns
NextBrands ==
    \/ deliver
    \/ \E user \in Users, brand_in \in BrandPayloads : create_brand(user, brand_in)
    \/ \E user \in Users : list_brands(user)
    \/ \E user \in Users, brand_id \in RequestIds(brands, BrandIds) :
          get_brand(user, brand_id)
    \/ \E user \in Users, brand_id \in RequestIds(brands, BrandIds),
          brand_in \in BrandUpdates : update_brand(user, brand_id, brand_in)
    \/ \E user \in Users, brand_id \in RequestIds(brands, BrandIds) :
          delete_brand(user, brand_id)
    \/ \E user \in Users, brand_id \in RequestIds(brands, BrandIds),
          campaign_in \in CampaignPayloads : create_campaign(user, brand_id, campaign_in)
    \/ \E user \in Users, campaign_id \in RequestIds(campaigns, CampaignIds),
          campaign_in \in CampaignUpdates : update_campaign(user, campaign_id, campaign_in)
    \/ \E user \in Users, campaign_id \in RequestIds(campaigns, CampaignIds) :
          delete_campaign(user, campaign_id)

SpecBrands == Init /\ [][NextBrands]_vars

\* the users whose subscribe requests overlap
ConcurrentUsers == {user \in Users : user.tenant_id = "t1"}

\* their requests give no end_date
ConcurrentPayloads == {sub_in \in SubscriptionPayloads : sub_in.end_date = None}

\* overlapping subscribe_to_plan and stripe_webhook requests
NextConcurrent ==
    \/ deliver
    \/ \E user \in RepeatUsers, plan_in \in PlanPayloads : create_plan(user, plan_in)
    \/ \E user \in ConcurrentUsers, plan_id \in PlanIds, sub_in \in ConcurrentPayloads :
          subscribe_select(user, plan_id, sub_in)
    \/ \E event \in WebhookEvents : webhook_select(event)
    \/ \E i \in 1..MaxWrites : commit(i)

SpecConcurrent == Init /\ [][NextConcurrent]_vars

\* matching requests before and after the pool changes: one response with
\* recommendations is kept, the directory is written on, and further matches
\* follow
NextFresh ==
    \/ deliver
    \/ /\ seen = NoSeen
       /\ Len(response.body) >= 1
       /\ keep_match
    \/ \E user \in RepeatUsers, brand_in \in BrandPayloads : create_brand(user, brand_in)
    \/ \E user \in RepeatUsers, influencer_in \in InfluencerPayloads :
          create_influencer(user, influencer_in)
    \/ \E user \in RepeatUsers, id \in RequestIds(influencers, InfluencerIds),
          influencer_in \in InfluencerUpdates :
          update_influencer(user, id, influencer_in)
    \/ \E user \in RepeatUsers, id \in RequestIds(influencers, InfluencerIds) :
          delete_influencer(user, id)
    \/ \E user \in RepeatUsers : refresh_influencers(user)
    \/ \E user \in RepeatUsers, brand_id \in RequestIds(brands, BrandIds) :
          match_influencers_for_brand(user, brand_id, None)

SpecFresh == Init /\ [][NextFresh]_vars

----------------------------------------------------------------------------
(* The similarity of lines 87-89 on arbitrary token sets *)

Vocabulary == << <<"e","c","o">>, <<"w","e","a","r">>, <<"f","i","t">>,
                 <<"t","i","k","t","o","k">>, <<"y","o","g","a">> >>

\* how many words of Vocabulary the token sets are drawn from
MaxVocabulary == 4

TokenSets == SUBSET {Vocabulary[i] : i \in 1..MaxVocabulary}

InitSimilarity ==
    /\ influencers = <<>>
    /\ brands = <<>>
    /\ writes = 0
    /\ request \in {[op |-> "similarity", brand_tokens |-> A, inf_tokens |-> B] :
                       A \in TokenSets, B \in TokenSets}
    /\ response = NoResponse
    /\ seen = NoSeen
    /\ plans = <<>>
    /\ subscriptions = <<>>
    /\ campaigns = <<>>
    /\ inflight = <<>>

similarity ==
    /\ request.op = "similarity"
    /\ response = NoResponse
    /\ response' = [status |-> HTTP_200,
                    body |-> SemanticScore(request.brand_tokens, request.inf_tokens),
                    fetched |-> FALSE, scored |-> 1]
    /\ UNCHANGED <<influencers, brands, writes, request, seen, billing, campaigns, inflight>>

NextSimilarity == similarity

SpecSimilarity == InitSimilarity /\ [][NextSimilarity]_vars

----------------------------------------------------------------------------
(* The scoring of lines 78-113 on arbitrary pools *)

\* the followers and engagement rates of the scored influencers; 350 is 3.5
ScoreFollowers == {None, Some(500000), Some(1000000)}

ScoreRates == {None, Some(350)}

\* the largest pool that is scored
MaxPool == 2

\* Influencer rows of tenant t1 built from the InfluencerCreate bodies
ScoreRows ==
    { [ id |-> 0, tenant_id |-> "t1", handle |-> b.handle, name |-> b.name,
        platform |-> b.platform, followers |-> f, engagement_rate |-> r,
        topics |-> b.topics, bio |-> b.bio, country |-> b.country ] :
        b \in InfluencerPayloads, f \in ScoreFollowers, r \in ScoreRates }

\* the pools of 1..MaxPool rows, the row at position i having id i
ScorePools ==
    UNION { { [i \in 1..n |-> [rows[i] EXCEPT !.id = i]] : rows \in [1..n -> ScoreRows] } :
            n \in 1..MaxPool }

\* Brand rows of tenant t1 built from the BrandCreate bodies
ScoreBrands ==
    { [ id |-> 1, owner_id |-> "admin1", name |-> b.name, description |-> b.description,
        industry |-> b.industry, target_audience |-> b.target_audience,
        tenant_id |-> "t1" ] : b \in BrandPayloads }

InitScore ==
    /\ influencers = <<>>
    /\ brands = <<>>
    /\ writes = 0
    /\ request \in {[op |-> "rank", brand |-> b, pool |-> p] :
                       b \in ScoreBrands, p \in ScorePools}
    /\ response = NoResponse
    /\ seen = NoSeen
    /\ plans = <<>>
    /\ subscriptions = <<>>
    /\ campaigns = <<>>
    /\ inflight = <<>>

\* lines 78-113 applied to the brand and the pool of the request
rank ==
    /\ request.op = "rank"
    /\ response = NoResponse
    /\ response' = [status |-> HTTP_200,
                    body |-> Rank(request.brand, request.pool, TopNMax),
                    fetched |-> TRUE, scored |-> Len(request.pool)]
    /\ UNCHANGED <<influencers, brands, writes, request, seen, billing, campaigns, inflight>>

NextScore == rank

SpecScore == InitScore /\ [][NextScore]_vars

----------------------------------------------------------------------------
(* tokenize on arbitrary texts *)

\* the characters of the tokenized texts: letters of both cases, the
\* underscore, a digit and a blank
TextChars == {"a", "N", "d", "_", "1", " "}

\* the length of the longest tokenized text
MaxText == 4

Texts == UNION { [1..n -> TextChars] : n \in 0..MaxText }

InitTokenize ==
    /\ influencers = <<>>
    /\ brands = <<>>
    /\ writes = 0
    /\ request \in {[op |-> "tokenize", text |-> t] : t \in Texts}
    /\ response = NoResponse
    /\ seen = NoSeen
    /\ plans = <<>>
    /\ subscriptions = <<>>
    /\ campaigns = <<>>
    /\ inflight = <<>>

\* tokenize(text) called on the text of the request
tokenize_text ==
    /\ request.op = "tokenize"
    /\ response = NoResponse
    /\ response' = [status |-> HTTP_200, body |-> tokenize(request.text),
                    fetched |-> FALSE, scored |-> 0]
    /\ UNCHANGED <<influencers, brands, writes, request, seen, billing, campaigns, inflight>>

NextTokenize == tokenize_text

SpecTokenize == InitTokenize /\ [][NextTokenize]_vars

----------------------------------------------------------------------------
(* Properties *)

Caller == request.user

Min2(a, b) == IF a <= b THEN a ELSE b

\* what the store holds for the caller, stated on the rows themselves
CallerRows == {inf \in Range(influencers) : inf.tenant_id = Caller.tenant_id}

PoolSize == Cardinality(CallerRows)

RowsWithId(id) == {inf \in Range(influencers) : inf.id = id}

Position(id) == CHOOSE p \in 1..Len(influencers) : influencers[p].id = id

BrandMissing == \A i \in 1..Len(brands) : brands[i].id # request.brand_id

BrandForeign == \E i \in 1..Len(brands) : /\ brands[i].id = request.brand_id
                                          /\ brands[i].tenant_id # Caller.tenant_id

BrandOwn == \E i \in 1..Len(brands) : /\ brands[i].id = request.brand_id
                                      /\ brands[i].tenant_id = Caller.tenant_id

\* the request failed with `code` before the influencers were read or scored
Refused(code) ==
    /\ response.status = code
    /\ ~response.fetched
    /\ response.scored = 0
    /\ response.body = <<>>

EffectiveTopN == IF request.top_n = None THEN 5 ELSE Val(request.top_n)

\* C1: every influencer a match or a search returns is a row of the caller's
\* tenant
C1_TenantIsolation ==
    /\ request.op = "match" =>
          \A k \in 1..Len(response.body) :
             /\ RowsWithId(response.body[k].influencer_id) # {}
             /\ \A inf \in RowsWithId(response.body[k].influencer_id) :
                   inf.tenant_id = Caller.tenant_id
    /\ request.op = "search" =>
          \A k \in 1..Len(response.body) :
             /\ RowsWithId(response.body[k].id) # {}
             /\ \A inf \in RowsWithId(response.body[k].id) :
                   inf.tenant_id = Caller.tenant_id

\* a match that returned influencers while another tenant has influencers too
C1_Witness ==
    /\ request.op = "match"
    /\ Len(response.body) >= 1
    /\ \E inf \in Range(influencers) : inf.tenant_id # Caller.tenant_id

\* C2: a match result is ordered by non-increasing score, and results of equal
\* score keep the order their influencers have in the pool
C2_SortedStable ==
    request.op = "match" =>
       \A i, j \in 1..Len(response.body) : i < j =>
          /\ response.body[i].score >= response.body[j].score
          /\ response.body[i].score = response.body[j].score =>
                Position(response.body[i].influencer_id)
                   < Position(response.body[j].influencer_id)

\* a match whose first two results have the same score
C2_Witness ==
    /\ request.op = "match"
    /\ Len(response.body) >= 2
    /\ response.body[1].score = response.body[2].score

\* C3: for a brand of the caller's tenant and top_n in 1..50 a match returns
\* min(top_n, pool size) results, none for an empty pool, with status 200
C3_TopNLength ==
    (request.op = "match" /\ BrandOwn /\ EffectiveTopN \in 1..50) =>
       /\ response.status = 200
       /\ Len(response.body) = Min2(EffectiveTopN, PoolSize)

\* a match with top_n = 1 over a pool of two
C3_Witness ==
    /\ request.op = "match"
    /\ BrandOwn
    /\ request.top_n = Some(1)
    /\ PoolSize = 2
    /\ Len(response.body) = 1

\* C4: every score of a match response lies in [0, 1]
C4_ScoreInUnitInterval ==
    request.op = "match" =>
       \A k \in 1..Len(response.body) :
          response.body[k].score >= 0 /\ response.body[k].score <= 10000

\* C5 as stated: any match request for a missing brand ends 404 and for a
\* brand of another tenant 403, before the influencers are read or scored
C5_BrandErrorsAnyTopN ==
    request.op = "match" =>
       /\ BrandMissing => Refused(404)
       /\ BrandForeign => Refused(403)

\* C5 amended: the same for the requests whose top_n is omitted or in 1..50
C5_BrandErrors ==
    (request.op = "match" /\ EffectiveTopN \in 1..50) =>
       /\ BrandMissing => Refused(404)
       /\ BrandForeign => Refused(403)

\* a match for another tenant's brand by a caller whose tenant has influencers
C5_Witness ==
    /\ request.op = "match"
    /\ EffectiveTopN \in 1..50
    /\ BrandForeign
    /\ PoolSize >= 1
    /\ response.status = 403

\* C6: a top_n below 1 or above 50 is refused before anything is read or
\* scored, and a request without top_n is answered as one with top_n = 5
C6_TopNRange ==
    request.op = "match" =>
       /\ (request.top_n # None /\ Val(request.top_n) \notin 1..50) => Refused(422)
       /\ request.top_n = None =>
             /\ TopNParam(request.top_n) = 5
             /\ response = MatchResponse(Caller, request.brand_id, Some(5))

\* a match with top_n = 51 for an own brand over a non-empty pool
C6_Witness ==
    /\ request.op = "match"
    /\ request.top_n = Some(51)
    /\ BrandOwn
    /\ PoolSize >= 1
    /\ response.status = 422

\* the criteria of a search, clause by clause, on one row
TextOk(inf, c) ==
    /\ Truthy(c.q) => \/ ILike(Some(inf.name), Contains(Val(c.q)))
                      \/ ILike(Some(inf.handle), Contains(Val(c.q)))
                      \/ ILike(inf.topics, Contains(Val(c.q)))
                      \/ ILike(inf.bio, Contains(Val(c.q)))
    /\ Truthy(c.platform) => ILike(Some(inf.platform), Val(c.platform))
    /\ Truthy(c.country) => ILike(inf.country, Val(c.country))
    /\ Truthy(c.topic) => ILike(inf.topics, Contains(Val(c.topic)))

FollowersOk(inf, c) ==
    /\ c.min_followers # None =>
          (inf.followers = None \/ Val(inf.followers) >= Val(c.min_followers))
    /\ c.max_followers # None =>
          (inf.followers = None \/ Val(inf.followers) <= Val(c.max_followers))

RateOk(inf, c) ==
    /\ c.min_engagement_rate # None =>
          (inf.engagement_rate = None
             \/ Val(inf.engagement_rate) >= Val(c.min_engagement_rate))
    /\ c.max_engagement_rate # None =>
          (inf.engagement_rate = None
             \/ Val(inf.engagement_rate) <= Val(c.max_engagement_rate))

ReturnedIds == {response.body[k].id : k \in 1..Len(response.body)}

\* C7: a row of the caller's tenant with followers NULL is returned whatever
\* min_followers and max_followers are, when it passes the other clauses; the
\* same for engagement_rate NULL and the two rate bounds
C7_NullPassesRanges ==
    request.op = "search" =>
       \A inf \in CallerRows :
          /\ (inf.followers = None /\ TextOk(inf, request.criteria)
                /\ RateOk(inf, request.criteria)) => inf.id \in ReturnedIds
          /\ (inf.engagement_rate = None /\ TextOk(inf, request.criteria)
                /\ FollowersOk(inf, request.criteria)) => inf.id \in ReturnedIds

\* a search with both follower bounds that returns a row with followers NULL
\* and leaves out a row of the tenant whose followers are known
C7_Witness ==
    /\ request.op = "search"
    /\ request.criteria.min_followers # None
    /\ request.criteria.max_followers # None
    /\ \E k \in 1..Len(response.body) : response.body[k].followers = None
    /\ \E inf \in CallerRows : inf.followers # None /\ inf.id \notin ReturnedIds

\* C8: a search returns, once each, exactly the rows of the caller's tenant
\* that pass every supplied clause; with no criteria, every row of the tenant
C8_SearchExact ==
    request.op = "search" =>
       /\ ReturnedIds = {inf.id : inf \in
                           {r \in CallerRows : /\ TextOk(r, request.criteria)
                                               /\ FollowersOk(r, request.criteria)
                                               /\ RateOk(r, request.criteria)}}
       /\ Len(response.body) = Cardinality(ReturnedIds)
       /\ request.criteria = NoCriteria =>
             ReturnedIds = {inf.id : inf \in CallerRows}

\* a search with two criteria that returns some rows of the tenant, not all
C8_Witness ==
    /\ request.op = "search"
    /\ request.criteria.platform # None
    /\ request.criteria.min_followers # None
    /\ Len(response.body) >= 1
    /\ Len(response.body) < PoolSize

\* C9: the similarity of token sets A and B is |A \cap B| / |A \cup B|, lies
\* in [0, 1], is 1 for A = B non-empty and 0 for A and B both empty
C9_Jaccard ==
    (request.op = "similarity" /\ response.status = 200) =>
       LET A == request.brand_tokens
           B == request.inf_tokens
           n == response.body[1]
           d == response.body[2]
       IN  /\ d > 0
           /\ 0 <= n /\ n <= d
           /\ A \cup B # {} => n * Cardinality(A \cup B) = Cardinality(A \cap B) * d
           /\ (A = B /\ A # {}) => n = d
           /\ (A = {} /\ B = {}) => n = 0

\* the similarity of a non-empty set with itself has been computed
C9_Witness ==
    /\ request.op = "similarity"
    /\ response.status = 200
    /\ request.brand_tokens = request.inf_tokens
    /\ request.brand_tokens # {}

\* C10: the max_followers a match divides by is at least 1 for every
\* non-empty pool
C10_DivisorAtLeastOne ==
    (request.op = "match" /\ response.scored > 0) =>
       MaxFollowers(InfluencersOfTenant(Caller.tenant_id)) >= 1

PoolMax(pool) ==
    LET counts == {IF pool[i].followers = None THEN 0 ELSE Val(pool[i].followers) :
                      i \in 1..Len(pool)}
        top == CHOOSE m \in counts : \A n \in counts : n <= m
    IN  IF top = 0 THEN 1 ELSE top

\* 0.6 * semantic + 0.4 * (0.5 * followers / max + 0.5 * rate / 100) as an
\* exact fraction, for the token sets A and B, followers f, rate r in
\* hundredths and pool maximum m
ExactScore(A, B, f, r, m) ==
    LET semantic == IF A \cup B = {} THEN <<0, 1>>
                    ELSE Frac(Cardinality(A \cap B), Cardinality(A \cup B))
        engagement == FAdd(FScale(1, 2, Frac(f, m)), FScale(1, 2, Frac(r, 10000)))
    IN  FAdd(FScale(6, 10, semantic), FScale(4, 10, engagement))

\* s / 10000 is x rounded to 4 decimals
RoundedTo4(s, x) == 2 * Abs(s * x[2] - 10000 * x[1]) <= x[2]

NullAsZero(o) == IF o = None THEN 0 ELSE Val(o)

\* C12: every ranked influencer gets round(0.6 * semantic_score + 0.4 *
\* engagement_score, 4) with engagement_score = 0.5 * followers /
\* max_followers + 0.5 * engagement_rate / 100, nulls counting as 0; with
\* semantic_score 0, followers 500000 of a pool maximum 1000000 and
\* engagement_rate 3.5 that is 0.107
C12_ScoreFormula ==
    (request.op = "rank" /\ response.status = 200) =>
       LET A == BrandTokens(request.brand)
           m == PoolMax(request.pool)
       IN  /\ Len(response.body) = Len(request.pool)
           /\ \A k \in 1..Len(response.body) :
                 LET rec == response.body[k]
                     row == request.pool[rec.influencer_id]
                     B == InfTokens(row)
                     f == NullAsZero(row.followers)
                     r == NullAsZero(row.engagement_rate)
                 IN  /\ RoundedTo4(rec.score, ExactScore(A, B, f, r, m))
                     /\ (A \cap B = {} /\ f = 500000 /\ m = 1000000 /\ r = 350)
                           => rec.score = 1070

\* the example has been scored: followers 500000 of a maximum 1000000, rate 3.5
C12_Witness ==
    /\ request.op = "rank"
    /\ response.status = 200
    /\ \E k \in 1..Len(response.body) :
          LET row == request.pool[response.body[k].influencer_id]
          IN  /\ BrandTokens(request.brand) \cap InfTokens(row) = {}
              /\ row.followers = Some(500000)
              /\ PoolMax(request.pool) = 1000000
              /\ row.engagement_rate = Some(350)
              /\ response.body[k].score = 1070

IsAlphabetic(c) == c \in Range(UpperChars) \cup Range(LowerChars)

\* the maximal runs of alphabetic characters of a text, from position i on,
\* `cur` being the run that is open
RECURSIVE AlphabeticRuns(_, _, _)
AlphabeticRuns(text, i, cur) ==
    IF i > Len(text) THEN (IF Len(cur) > 0 THEN {cur} ELSE {})
    ELSE IF IsAlphabetic(text[i]) THEN AlphabeticRuns(text, i + 1, Append(cur, text[i]))
    ELSE (IF Len(cur) > 0 THEN {cur} ELSE {}) \cup AlphabeticRuns(text, i + 1, <<>>)

\* C13: the tokens of a text are the lower-cased maximal runs of alphabetic
\* characters of the text, digits and underscores separating tokens, without
\* those of length 2 or less and without the stop words
C13_AlphabeticTokens ==
    (request.op = "tokenize" /\ response.status = 200) =>
       Range(response.body) =
          {t \in AlphabeticRuns(Lower(request.text), 1, <<>>) :
              Len(t) > 2 /\ t \notin stop_words}

\* needle occurs in hay, both taken in lower case
OccursIn(needle, hay) ==
    \E i \in 1..(Len(hay) - Len(needle) + 1) :
       SubSeq(Lower(hay), i, i + Len(needle) - 1) = Lower(needle)

\* q occurs in one of name, handle, topics and bio; a NULL field has no
\* occurrence
QOccurs(inf, q) ==
    \/ OccursIn(q, inf.name)
    \/ OccursIn(q, inf.handle)
    \/ (inf.topics # None /\ OccursIn(q, Val(inf.topics)))
    \/ (inf.bio # None /\ OccursIn(q, Val(inf.bio)))

\* C14: with q supplied, a search returns a row of the caller's tenant if and
\* only if q occurs, whatever the case, in its name, handle, topics or bio and
\* the row passes every other supplied clause
C14_QSubstring ==
    (request.op = "search" /\ request.criteria.q # None) =>
       \A inf \in CallerRows :
          inf.id \in ReturnedIds <=>
             /\ QOccurs(inf, Val(request.criteria.q))
             /\ TextOk(inf, [request.criteria EXCEPT !.q = None])
             /\ FollowersOk(inf, request.criteria)
             /\ RateOk(inf, request.criteria)

\* the value the k-th returned influencer has in the column `column`
Column(k, column) ==
    IF column = <<"f","o","l","l","o","w","e","r","s">> THEN response.body[k].followers
    ELSE response.body[k].engagement_rate

\* the response is ordered by `column`, upwards or downwards, its NULLs
\* together at one end
OrderedBy(column) ==
    LET n == Len(response.body)
        known == {k \in 1..n : Column(k, column) # None}
    IN  /\ \/ \A i, j \in known : i < j => Val(Column(i, column)) <= Val(Column(j, column))
           \/ \A i, j \in known : i < j => Val(Column(i, column)) >= Val(Column(j, column))
        /\ \/ \A i \in known, j \in (1..n) \ known : i < j
           \/ \A i \in known, j \in (1..n) \ known : j < i

\* the rows of the caller's tenant that pass every supplied clause
PassingIds ==
    {inf.id : inf \in {r \in CallerRows : /\ TextOk(r, request.criteria)
                                          /\ FollowersOk(r, request.criteria)
                                          /\ RateOk(r, request.criteria)}}

\* C15: a search with sort_by followers or engagement_rate returns its rows
\* ordered by that column; with any other sort_by, or none, it succeeds and
\* returns the same rows in the order of the store
C15_SortBy ==
    request.op = "search" =>
       LET sort_by == request.criteria.sort_by IN
       /\ response.status = 200
       /\ ReturnedIds = PassingIds
       /\ IF sort_by = Some(<<"f","o","l","l","o","w","e","r","s">>)
             \/ sort_by = Some(<<"e","n","g","a","g","e","m","e","n","t","_","r","a","t","e">>)
          THEN OrderedBy(Val(sort_by))
          ELSE \A i, j \in 1..Len(response.body) : i < j =>
                  Position(response.body[i].id) < Position(response.body[j].id)

\* a search sorted by followers that returns two rows in the opposite of
\* their order in the store
C15_Witness ==
    /\ request.op = "search"
    /\ request.criteria.sort_by = Some(<<"f","o","l","l","o","w","e","r","s">>)
    /\ Len(response.body) >= 2
    /\ response.body[1].followers # None
    /\ response.body[2].followers # None
    /\ response.body[1].followers # response.body[2].followers
    /\ Position(response.body[1].id) > Position(response.body[2].id)

ValidSortBy ==
    \/ request.criteria.sort_by = Some(<<"f","o","l","l","o","w","e","r","s">>)
    \/ request.criteria.sort_by = Some(<<"e","n","g","a","g","e","m","e","n","t","_","r","a","t","e">>)

\* the known values of the sort column go down, respectively up, along the
\* response
Descending ==
    \A i, j \in 1..Len(response.body) :
       LET ki == Column(i, Val(request.criteria.sort_by))
           kj == Column(j, Val(request.criteria.sort_by))
       IN  (i < j /\ ki # None /\ kj # None) => Val(ki) >= Val(kj)

Ascending ==
    \A i, j \in 1..Len(response.body) :
       LET ki == Column(i, Val(request.criteria.sort_by))
           kj == Column(j, Val(request.criteria.sort_by))
       IN  (i < j /\ ki # None /\ kj # None) => Val(ki) <= Val(kj)

\* C16 as stated: with a valid sort_by only the order value "desc", in lower
\* case, sorts descending, and every other value, "DESC" included, ascending
C16_OnlyLowerCaseDesc ==
    (request.op = "search" /\ ValidSortBy) =>
       IF request.criteria.order = <<"d","e","s","c">> THEN Descending ELSE Ascending

\* C16 amended: with a valid sort_by the order values that read "desc" in any
\* letter case sort descending, and every other value ascending
C16_DescAnyCase ==
    (request.op = "search" /\ ValidSortBy) =>
       IF Lower(request.criteria.order) = <<"d","e","s","c">> THEN Descending ELSE Ascending

\* a search with order "DESC" whose first two rows go strictly down
C16_Witness ==
    /\ request.op = "search"
    /\ ValidSortBy
    /\ request.criteria.order = <<"D","E","S","C">>
    /\ Len(response.body) >= 2
    /\ Column(1, Val(request.criteria.sort_by)) # None
    /\ Column(2, Val(request.criteria.sort_by)) # None
    /\ Val(Column(1, Val(request.criteria.sort_by))) > Val(Column(2, Val(request.criteria.sort_by)))

\* C17: a step that handles a match or a search request, whatever its
\* outcome, leaves the brand and influencer records as they are
C17_ReadOnly ==
    [][request'.op \in {"match", "search"} =>
          (influencers' = influencers /\ brands' = brands)]_vars

\* a match was refused and a store with brands and influencers is in place
C17_Witness ==
    /\ request.op = "match"
    /\ response.status = 403
    /\ brands # <<>>
    /\ influencers # <<>>

\* the lower bound of a range is above its upper bound
Malformed(c) ==
    \/ (c.min_followers # None /\ c.max_followers # None
          /\ Val(c.min_followers) > Val(c.max_followers))
    \/ (c.min_engagement_rate # None /\ c.max_engagement_rate # None
          /\ Val(c.min_engagement_rate) > Val(c.max_engagement_rate))

\* C18: a search whose min_followers is above max_followers, or whose
\* min_engagement_rate is above max_engagement_rate, is refused with an error
\* before any row is filtered and returns no influencer
C18_MalformedRejected ==
    (request.op = "search" /\ Malformed(request.criteria)) =>
       /\ response.status >= 400
       /\ ~response.fetched
       /\ response.body = <<>>

\* the rows of the caller's tenant as the store holds them now
CallerPool == SelectSeq(influencers, LAMBDA inf : inf.tenant_id = Caller.tenant_id)

\* the largest followers count among recommendations, a null counting as 0
BodyMax(body) ==
    LET counts == {NullAsZero(body[k].followers) : k \in 1..Len(body)}
    IN  CHOOSE m \in counts : \A n \in counts : n <= m

\* C19: whatever was created, updated, deleted or refreshed before, and
\* whatever an earlier match returned, the scores of a match response are
\* those of the rows as they are now, normalised by the largest followers
\* count the caller's pool has now
C19_FreshNormalisation ==
    (request.op = "match" /\ response.status = 200) =>
       LET brand == CHOOSE b \in Range(brands) : b.id = request.brand_id
           A == BrandTokens(brand)
       IN  \A k \in 1..Len(response.body) :
              LET rec == response.body[k]
                  row == CHOOSE inf \in Range(influencers) : inf.id = rec.influencer_id
              IN  RoundedTo4(rec.score,
                             ExactScore(A, InfTokens(row), NullAsZero(row.followers),
                                        NullAsZero(row.engagement_rate), PoolMax(CallerPool)))

\* a kept match request was sent again after the pool changed and its
\* response differs: another largest followers count, other scores
C19_Witness ==
    /\ request.op = "match"
    /\ seen.request = request
    /\ response.status = 200
    /\ Len(response.body) >= 1
    /\ BodyMax(response.body) # BodyMax(seen.response.body)
    /\ \E k \in 1..Len(response.body), j \in 1..Len(seen.response.body) :
          /\ response.body[k].influencer_id = seen.response.body[j].influencer_id
          /\ response.body[k].score # seen.response.body[j].score

\* the subscriptions of a user that are active
ActiveOf(rows, user_id) ==
    {i \in 1..Len(rows) : rows[i].user_id = user_id /\ rows[i].status = "active"}

\* C20: a successful subscribe_to_plan leaves the subscription that was the
\* user's active one cancelled with an end_date, and the new subscription for
\* the requested plan is the user's active subscription
C20_SubscribeReplaces ==
    [][(request'.op = "subscribe" /\ response'.status = 201) =>
          LET user_id == request'.user.id
              new == Len(subscriptions')
          IN  /\ \A i \in ActiveOf(subscriptions, user_id) :
                    /\ subscriptions'[i].id = subscriptions[i].id
                    /\ subscriptions'[i].status = "cancelled"
                    /\ subscriptions'[i].end_date # None
              /\ new = Len(subscriptions) + 1
              /\ subscriptions'[new].id = response'.body[1].id
              /\ subscriptions'[new].plan_id = request'.plan_id
              /\ ActiveOf(subscriptions', user_id) = {new}]_vars

\* C21: with subscribe_to_plan, cancel_my_subscription and stripe_webhook run
\* one after the other from an empty table, no user ever has more than one
\* active subscription
C21_OneActive ==
    \A user \in Users : Cardinality(ActiveOf(subscriptions, user.id)) <= 1

\* the webhook has replaced an active subscription of a user
C21_Witness ==
    /\ request.op = "webhook"
    /\ \E user \in Users :
          /\ Cardinality(ActiveOf(subscriptions, user.id)) = 1
          /\ \E i \in 1..Len(subscriptions) :
                /\ subscriptions[i].user_id = user.id
                /\ subscriptions[i].status = "cancelled"
                /\ subscriptions[i].end_date # None

\* C22: subscribe_to_plan for a plan that does not exist or is not active
\* answers 404 and leaves every subscription as it was, so an active
\* subscription of the user stays active
C22_UnavailablePlan ==
    [][(/\ request'.op = "subscribe"
        /\ \/ \A i \in 1..Len(plans) : plans[i].id # request'.plan_id
           \/ \E i \in 1..Len(plans) :
                 plans[i].id = request'.plan_id /\ ~plans[i].active)
       => /\ response'.status = 404
          /\ subscriptions' = subscriptions
          /\ ActiveOf(subscriptions', request'.user.id)
                = ActiveOf(subscriptions, request'.user.id)]_vars

\* a user with an active subscription was refused a plan that exists but is
\* not active
C22_Witness ==
    /\ request.op = "subscribe"
    /\ response.status = 404
    /\ ActiveOf(subscriptions, request.user.id) # {}
    /\ \E i \in 1..Len(plans) : plans[i].id = request.plan_id /\ ~plans[i].active

\* C26: stripe_webhook creates or cancels a subscription only when a plan
\* has the price id of the Stripe subscription as its stripe_price_id; when
\* the price id could not be retrieved, the subscriptions stay as they were,
\* also when a plan has no stripe_price_id
C26_OnlyMatchingPrice ==
    [][(request'.op = "webhook" /\ subscriptions' # subscriptions)
       => /\ request'.event.price_id # None
          /\ \E i \in 1..Len(plans) :
                plans[i].stripe_price_id = request'.event.price_id]_vars

\* C25: when subscribe_to_plan requests of one user, or a subscribe_to_plan
\* request and a stripe_webhook event for that user, overlap between the
\* select of the active subscription and the commit, the user has at most one
\* active subscription once the handlers have finished
C25_OneActiveInterleaved ==
    inflight = <<>> =>
        \A user \in Users : Cardinality(ActiveOf(subscriptions, user.id)) <= 1

\* the ids of the brands that satisfy P
BrandIdsWhere(P(_)) == {brands[i].id : i \in {j \in 1..Len(brands) : P(brands[j])}}

C28_CampaignTenant ==
    \A i \in 1..Len(campaigns) :
       \E j \in 1..Len(brands) :
          /\ brands[j].id = campaigns[i].brand_id
          /\ brands[j].tenant_id = campaigns[i].tenant_id

\* a campaign has been created while another tenant has a brand
C28_Witness ==
    /\ request.op = "create_campaign"
    /\ response.status = 201
    /\ \E i \in 1..Len(campaigns), j \in 1..Len(brands) :
          brands[j].tenant_id # campaigns[i].tenant_id

\* C24: GET /influencers/search is handled by search_influencers, which
\* answers with the filtered list; get_influencer does not receive it with
\* influencer_id = "search"
C24_SearchRouted ==
    /\ request.op = "get_influencer" => request.influencer_id # "search"
    /\ request.op = "search" => response.status = 200

\* C27: process_and_store run for a tenant neither deletes nor overwrites an
\* influencer row of another tenant, also when an incoming profile has the
\* handle of that row
C27_OtherTenantsKept ==
    [][request'.op = "process_and_store" =>
          \A i \in 1..Len(influencers) :
             influencers[i].tenant_id # request'.tenant_name =>
                \E j \in 1..Len(influencers') : influencers'[j] = influencers[i]]_vars

\* the top_n a match request is served with
TopNOf(req) == IF req.top_n = None THEN 5 ELSE Val(req.top_n)

\* C29: for the same brand and caller over an unchanged store, and
\* 1 <= n <= m <= 50, the recommendations of match with top_n = n are the
\* first n of those with top_n = m, or all of them if there are fewer
C29_TopNPrefix ==
    (/\ request.op = "match"
     /\ seen.request.op = "match"
     /\ request.user = seen.request.user
     /\ request.brand_id = seen.request.brand_id
     /\ response.status = 200
     /\ seen.response.status = 200
     /\ 1 <= TopNOf(request)
     /\ TopNOf(request) <= TopNOf(seen.request)
     /\ TopNOf(seen.request) <= 50)
    => response.body =
          SubSeq(seen.response.body, 1,
                 Min2(TopNOf(request), Len(seen.response.body)))

\* a match with top_n = 1 after the same match with the default top_n that
\* recommended several influencers
C29_Witness ==
    /\ request.op = "match"
    /\ seen.request.op = "match"
    /\ request.user = seen.request.user
    /\ request.brand_id = seen.request.brand_id
    /\ request.top_n = Some(1)
    /\ seen.request.top_n = None
    /\ Len(seen.response.body) >= 2
    /\ Len(response.body) = 1

\* C30: over two stores that agree on the brands and influencers of the
\* caller's tenant and differ in those of other tenants, a match request and
\* a search request get the same response, the scores included
C30_OtherTenantsUnseen ==
    (request.op \in {"match", "search"} /\ seen.request = request)
       => response = seen.response

\* C30, for a brand of the caller's tenant: over two stores that agree on
\* the brands and influencers of the caller's tenant and differ in those of
\* other tenants, a match request for a brand of the caller's tenant and a
\* search request get the same response, the scores included
C30_OwnBrandUnseen ==
    (/\ seen.request = request
     /\ \/ request.op = "search"
        \/ /\ request.op = "match"
           /\ \E i \in 1..Len(brands) :
                 /\ brands[i].id = request.brand_id
                 /\ brands[i].tenant_id = request.user.tenant_id)
       => response = seen.response

\* a match that recommended an influencer, repeated after another tenant
\* got an influencer with more followers than any of the caller's
C30_Witness ==
    /\ request.op = "match"
    /\ seen.request = request
    /\ Len(response.body) >= 1
    /\ \E i \in 1..Len(influencers) :
          /\ influencers[i].tenant_id # request.user.tenant_id
          /\ \A k \in 1..Len(seen.response.body) :
                /\ seen.response.body[k].followers # None
                /\ influencers[i].followers # None
                /\ Val(influencers[i].followers) > Val(seen.response.body[k].followers)

====
